---- MODULE Spec2Model ----
(***************************************************************************)
(* Pool settlement engine of PrivateSwap: the plaintext pool DemoSwap and  *)
(* the encrypted pool PrivateSwap (contracts in src/unnamed/part_005),     *)
(* together with the token ledgers they pull from and push to.             *)
(*                                                                         *)
(* A call that reaches an external token call is modelled as a frame on a  *)
(* call stack: the frame is pushed when the entry checks pass, advances    *)
(* one external call at a time and is popped when the function returns or  *)
(* reverts.  While a frame waits in an external call the ledger may call   *)
(* back into either pool (a nested frame).  A revert restores the state    *)
(* saved when the frame was pushed.                                        *)
(***************************************************************************)
EXTENDS Integers, Sequences, FiniteSets, TLC

VARIABLES demo, priv, pusd, faucet, stack, last, budget, nested

vars == <<demo, priv, pusd, faucet, stack, last, budget, nested>>

(***************************************************************************)
(* Bounds of the exploration.                                              *)
(***************************************************************************)
\* calls a ledger makes back into the pools during one transaction
MaxNested == 1
\* depth of the call stack (1 = no call-back from a ledger)
MaxDepth == 2
\* width of the encrypted integer type in the model (euint64 has 64 bits)
EuintBits == 16
\* transactions of one behaviour of SpecSeq
MaxCalls == 2
\* every amountIn from 0 to MaxQuoteIn is quoted in SpecQuote
MaxQuoteIn == 12
\* concurrent requests to the faucet
MaxRequests == 2
\* steps of the faucet's clock
MaxTicks == 2

Principals == {"alice", "bob"}
DemoSwapAddr == "DemoSwap"
PrivateSwapAddr == "PrivateSwap"
EncryptedPUSDAddr == "EncryptedPUSD"
\* address(0)
ZeroAddr == "0x0"
DemoHolders == Principals \cup {DemoSwapAddr}
PrivHolders == Principals \cup {PrivateSwapAddr}

\* a transaction is sent with any of the inputs below; a ledger that calls
\* back does so as ProbeCaller with the probe inputs
ProbeCaller == "bob"
In(full, probe) == IF stack = <<>> THEN full ELSE probe
Callers == In(Principals, {ProbeCaller})
Directions == In(BOOLEAN, {TRUE})

\* inputs of DemoSwap calls
SwapAmountsIn == In({0, 1, 100, 10000}, {1})
SwapMinOuts == In({0, 5000}, {0})
LiquidityAmounts == In({0, 1, 2}, {1})
DemoFeeInputs == In({0, 100, 101}, {0})

\* inputs of PrivateSwap calls: <<amountIn, expectedAmountOut, minAmountOut>>
PrivSwapInputs ==
    In({<<1, 1, 0>>, <<1, 1, 2>>, <<0, 2, 0>>, <<1, 3, 0>>, <<2, 1, 1>>, <<0, 0, 0>>},
       {<<1, 1, 0>>})
PrivLiquidityAmounts == In({0, 1, 3}, {1})
PrivQuoteAmounts == In({0, 1, 2}, {1})
PrivFeeInputs == In({0, 1000, 1001}, {0})
PauseInputs == In(BOOLEAN, {TRUE})
\* (a ledger that calls back does not call transferOwnership)
NewOwners == In(Principals \cup {ZeroAddr}, {})

(***************************************************************************)
(* Program constants.                                                      *)
(***************************************************************************)
FEE_DENOMINATOR == 10000
DemoMaxFee == 100
MAX_FEE == 1000
NOT_ENTERED == "NOT_ENTERED"
ENTERED == "ENTERED"

(***************************************************************************)
(* floor(a*b / c) and (a*b) mod c, computed by doubling so that the        *)
(* product a*b itself is never formed (the model checker's integers are    *)
(* 32 bits wide, the contract's are 256 bits wide).                        *)
(***************************************************************************)
RECURSIVE MulDivMod(_, _, _)
MulDivMod(a, b, c) ==
    IF b <= 0 THEN <<0, 0>>
    ELSE LET h == MulDivMod(a, b \div 2, c)
             d == 2 * h[2]
             q1 == 2 * h[1] + (d \div c)
             e == (d % c) + (IF b % 2 = 1 THEN a % c ELSE 0)
             qa == IF b % 2 = 1 THEN a \div c ELSE 0
         IN  <<q1 + qa + (e \div c), e % c>>

\* _calculateSwap with the fee not deducted from the input
CalcSwapNoFee(reserveIn, reserveOut, feeNum, amountIn) ==
    <<MulDivMod(amountIn, reserveOut, reserveIn + amountIn)[1], reserveIn + amountIn>>

\* _calculateSwap with the quotient rounded up instead of down
CalcSwapRoundUp(reserveIn, reserveOut, feeNum, amountIn) ==
    LET fee == (amountIn * feeNum) \div FEE_DENOMINATOR
        amountInAfterFee == amountIn - fee
        denominator == reserveIn + amountInAfterFee
        qr == MulDivMod(amountInAfterFee, reserveOut, denominator)
    IN  <<qr[1] + (IF qr[2] > 0 THEN 1 ELSE 0), reserveIn + amountInAfterFee>>

\* _calculateSwap with currentReserveIn left out of the denominator
CalcSwapNoReserveIn(reserveIn, reserveOut, feeNum, amountIn) ==
    LET fee == (amountIn * feeNum) \div FEE_DENOMINATOR
        amountInAfterFee == amountIn - fee
        denominator == amountInAfterFee
    IN  <<MulDivMod(amountInAfterFee, reserveOut, denominator)[1],
          reserveIn + amountInAfterFee>>

\* _calculateSwap with the fee divided before it is multiplied
CalcSwapDivFirst(reserveIn, reserveOut, feeNum, amountIn) ==
    LET fee == (amountIn \div FEE_DENOMINATOR) * feeNum
        amountInAfterFee == amountIn - fee
        denominator == reserveIn + amountInAfterFee
    IN  <<MulDivMod(amountInAfterFee, reserveOut, denominator)[1],
          reserveIn + amountInAfterFee>>

\* DemoSwap._calculateSwap on given reserves: <<amountOut, newReserveIn>>
CalcSwap(reserveIn, reserveOut, feeNum, amountIn) ==
    LET fee == (amountIn * feeNum) \div FEE_DENOMINATOR
        amountInAfterFee == amountIn - fee
        denominator == reserveIn + amountInAfterFee
    IN  <<MulDivMod(amountInAfterFee, reserveOut, denominator)[1],
          reserveIn + amountInAfterFee>>

_calculateSwap(d, aToB, amountIn) ==
    LET currentReserveIn == IF aToB THEN d.reserveA ELSE d.reserveB
        currentReserveOut == IF aToB THEN d.reserveB ELSE d.reserveA
    IN  CalcSwap(currentReserveIn, currentReserveOut, d.feeNumerator, amountIn)

\* DemoSwap.quote
quote(d, aToB, amountIn) ==
    IF amountIn = 0 \/ d.reserveA = 0 \/ d.reserveB = 0 THEN 0
    ELSE _calculateSwap(d, aToB, amountIn)[1]

(***************************************************************************)
(* Call stack helpers.                                                     *)
(***************************************************************************)
NoArgs == [aToB |-> FALSE, a1 |-> 0, a2 |-> 0, a3 |-> 0]
NoEvent == [name |-> "none", args |-> <<>>]
NoLoc == [x |-> 0, y |-> 0]
NoCall == [pool |-> "none", op |-> "none", caller |-> "none", args |-> NoArgs,
           res |-> "none", out |-> 0, event |-> NoEvent, pre |-> <<0, 0>>]

Top == stack[Len(stack)]
Pop == SubSeq(stack, 1, Len(stack) - 1)
Snapshot == [demo |-> demo, priv |-> priv, pusd |-> pusd]
\* the plaintext reserves of a pool in state s
ReservesOf(pool, s) ==
    IF pool = "DemoSwap" THEN <<s.demo.reserveA, s.demo.reserveB>>
    ELSE IF pool = "PrivateSwap" THEN <<s.priv.reserveA.val, s.priv.reserveB.val>>
    ELSE <<0, 0>>

\* a call is either a transaction (empty stack) or made by a ledger while a
\* pool waits in an external call to it
CanCall ==
    IF stack = <<>> THEN budget > 0
    ELSE /\ Len(stack) < MaxDepth
         /\ Top.pc # "exit"
         /\ nested < MaxNested

Spend ==
    IF stack = <<>> THEN budget' = budget - 1 /\ nested' = nested
    ELSE budget' = budget /\ nested' = nested + 1

Frame(pool, op, c, args, pc, loc) ==
    [pool |-> pool, op |-> op, caller |-> c, args |-> args, pc |-> pc,
     loc |-> loc, snap |-> Snapshot, prev |-> last]

\* the record of a completed call; pre holds the reserves of the called pool
\* when the call was made
Result(pool, op, c, args, res, out, ev) ==
    [pool |-> pool, op |-> op, caller |-> c, args |-> args, res |-> res,
     out |-> out, event |-> ev, pre |-> ReservesOf(pool, Snapshot)]

AtStep(pool, op, pc) ==
    /\ stack # <<>>
    /\ Top.pool = pool /\ Top.op = op /\ Top.pc = pc

Goto(pc) ==
    /\ stack' = [stack EXCEPT ![Len(stack)].pc = pc]
    /\ UNCHANGED <<pusd, faucet>>

\* the frame on top reverts: every effect since it was pushed is undone
Revert(msg) ==
    /\ demo' = Top.snap.demo
    /\ priv' = Top.snap.priv
    /\ pusd' = Top.snap.pusd
    /\ stack' = Pop
    /\ last' = [Result(Top.pool, Top.op, Top.caller, Top.args, msg, 0, NoEvent)
                 EXCEPT !.pre = ReservesOf(Top.pool, Top.snap)]
    /\ UNCHANGED <<faucet, budget, nested>>

\* a call that reverts in its entry checks
Reject(pool, op, c, args, msg) ==
    /\ last' = Result(pool, op, c, args, msg, 0, NoEvent)
    /\ UNCHANGED <<demo, priv, pusd, faucet, stack>>
    /\ Spend

\* a call that passes its entry checks and reaches an external call
Enter(pool, op, c, args, pc, loc) ==
    /\ stack' = Append(stack, Frame(pool, op, c, args, pc, loc))
    /\ last' = NoCall
    /\ UNCHANGED <<pusd, faucet>>
    /\ Spend

\* the frame on top returns
Return(out, ev) ==
    /\ stack' = Pop
    /\ last' = [Result(Top.pool, Top.op, Top.caller, Top.args, "ok", out, ev)
                 EXCEPT !.pre = ReservesOf(Top.pool, Top.snap)]
    /\ UNCHANGED <<pusd, faucet, budget, nested>>

\* a call that completes without an external call
Done(pool, op, c, args, out, ev) ==
    /\ last' = Result(pool, op, c, args, "ok", out, ev)
    /\ UNCHANGED <<pusd, faucet, stack>>
    /\ Spend

\* ERC20 transfer of amt from holder src to holder dst
Transfer(bal, src, dst, amt) ==
    [h \in DOMAIN bal |->
        bal[h] - (IF h = src THEN amt ELSE 0) + (IF h = dst THEN amt ELSE 0)]

(***************************************************************************)
(* DemoSwap                                                                *)
(***************************************************************************)
\* swap without the require on minAmountOut
DemoSwapCheckNoSlippage(d, aToB, amountIn, minAmountOut) ==
    IF d.status = ENTERED THEN "ReentrancyGuardReentrantCall"
    ELSE IF d.paused THEN "EnforcedPause"
    ELSE IF ~(amountIn > 0) THEN "Amount must be > 0"
    ELSE IF ~(d.reserveA > 0 /\ d.reserveB > 0) THEN "Insufficient liquidity"
    ELSE "ok"

\* swap without the nonReentrant modifier
DemoSwapCheckNoGuard(d, aToB, amountIn, minAmountOut) ==
    IF d.paused THEN "EnforcedPause"
    ELSE IF ~(amountIn > 0) THEN "Amount must be > 0"
    ELSE IF ~(d.reserveA > 0 /\ d.reserveB > 0) THEN "Insufficient liquidity"
    ELSE IF ~(_calculateSwap(d, aToB, amountIn)[1] >= minAmountOut)
         THEN "Insufficient output amount"
    ELSE "ok"

\* the modifiers and requires of DemoSwap.swap, in order
DemoSwapCheck(d, aToB, amountIn, minAmountOut) ==
    IF d.status = ENTERED THEN "ReentrancyGuardReentrantCall"
    ELSE IF d.paused THEN "EnforcedPause"
    ELSE IF ~(amountIn > 0) THEN "Amount must be > 0"
    ELSE IF ~(d.reserveA > 0 /\ d.reserveB > 0) THEN "Insufficient liquidity"
    ELSE IF ~(_calculateSwap(d, aToB, amountIn)[1] >= minAmountOut)
         THEN "Insufficient output amount"
    ELSE "ok"

\* DemoSwap.swap up to its first external call
DemoSwapCall(c, aToB, amountIn, minAmountOut) ==
    LET args == [aToB |-> aToB, a1 |-> amountIn, a2 |-> minAmountOut, a3 |-> 0]
        chk == DemoSwapCheck(demo, aToB, amountIn, minAmountOut)
    IN  /\ CanCall
        /\ IF chk # "ok"
           THEN Reject(DemoSwapAddr, "swap", c, args, chk)
           ELSE /\ demo' = [demo EXCEPT !.status = ENTERED]
                /\ Enter(DemoSwapAddr, "swap", c, args, "pull",
                         [x |-> _calculateSwap(demo, aToB, amountIn)[1], y |-> 0])
                /\ UNCHANGED priv

\* the reserve update with the aToB branch taken in both directions
DemoSwapReservesOneWay(d, aToB, amountIn, amountOut) ==
    LET fee == (amountIn * d.feeNumerator) \div FEE_DENOMINATOR
    IN  [d EXCEPT !.reserveA = @ + (amountIn - fee), !.reserveB = @ - amountOut]

\* the reserve update with the input side left as it was
DemoSwapReservesNoIn(d, aToB, amountIn, amountOut) ==
    IF aToB THEN [d EXCEPT !.reserveB = @ - amountOut]
    ELSE [d EXCEPT !.reserveA = @ - amountOut]

\* the reserve update with the output side left as it was
DemoSwapReservesNoOut(d, aToB, amountIn, amountOut) ==
    LET fee == (amountIn * d.feeNumerator) \div FEE_DENOMINATOR
    IN  IF aToB THEN [d EXCEPT !.reserveA = @ + (amountIn - fee)]
        ELSE [d EXCEPT !.reserveB = @ + (amountIn - fee)]

\* the reserve update of DemoSwap.swap
DemoSwapReserves(d, aToB, amountIn, amountOut) ==
    LET fee == (amountIn * d.feeNumerator) \div FEE_DENOMINATOR
    IN  IF aToB
        THEN [d EXCEPT !.reserveA = @ + (amountIn - fee), !.reserveB = @ - amountOut]
        ELSE [d EXCEPT !.reserveB = @ + (amountIn - fee), !.reserveA = @ - amountOut]

\* the pull made with transferFrom, its result not checked
DemoSwapPullUnchecked(ok) ==
    /\ AtStep(DemoSwapAddr, "swap", "pull")
    /\ LET f == Top
           balIn == IF f.args.aToB THEN demo.balA ELSE demo.balB
           amt == IF ~ok \/ balIn[f.caller] < f.args.a1 THEN 0 ELSE f.args.a1
           moved == Transfer(balIn, f.caller, DemoSwapAddr, amt)
           pulled == IF f.args.aToB THEN [demo EXCEPT !.balA = moved]
                                    ELSE [demo EXCEPT !.balB = moved]
       IN  /\ demo' = DemoSwapReserves(pulled, f.args.aToB, f.args.a1, f.loc.x)
           /\ Goto("push")
           /\ UNCHANGED <<priv, last, budget, nested>>

\* safeTransferFrom of the input token, then the reserve update
DemoSwapPull(ok) ==
    /\ AtStep(DemoSwapAddr, "swap", "pull")
    /\ LET f == Top
           balIn == IF f.args.aToB THEN demo.balA ELSE demo.balB
           moved == Transfer(balIn, f.caller, DemoSwapAddr, f.args.a1)
           pulled == IF f.args.aToB THEN [demo EXCEPT !.balA = moved]
                                    ELSE [demo EXCEPT !.balB = moved]
       IN  IF ~ok \/ balIn[f.caller] < f.args.a1
           THEN Revert("transfer failed")
           ELSE /\ demo' = DemoSwapReserves(pulled, f.args.aToB, f.args.a1, f.loc.x)
                /\ Goto("push")
                /\ UNCHANGED <<priv, last, budget, nested>>

\* safeTransfer of the output token
DemoSwapPush(ok) ==
    /\ AtStep(DemoSwapAddr, "swap", "push")
    /\ LET f == Top
           balOut == IF f.args.aToB THEN demo.balB ELSE demo.balA
           moved == Transfer(balOut, DemoSwapAddr, f.caller, f.loc.x)
       IN  IF ~ok \/ balOut[DemoSwapAddr] < f.loc.x
           THEN Revert("transfer failed")
           ELSE /\ demo' = IF f.args.aToB THEN [demo EXCEPT !.balB = moved]
                                          ELSE [demo EXCEPT !.balA = moved]
                /\ Goto("exit")
                /\ UNCHANGED <<priv, last, budget, nested>>

\* the end of swap with the lock left as it is
DemoSwapExitHeld ==
    /\ AtStep(DemoSwapAddr, "swap", "exit")
    /\ demo' = demo
    /\ Return(Top.loc.x,
              [name |-> "Swap",
               args |-> <<Top.caller, Top.args.aToB, Top.args.a1, Top.loc.x>>])
    /\ UNCHANGED priv

\* emit Swap, leave nonReentrant, return amountOut
DemoSwapExit ==
    /\ AtStep(DemoSwapAddr, "swap", "exit")
    /\ demo' = [demo EXCEPT !.status = NOT_ENTERED]
    /\ Return(Top.loc.x,
              [name |-> "Swap",
               args |-> <<Top.caller, Top.args.aToB, Top.args.a1, Top.loc.x>>])
    /\ UNCHANGED priv

\* the modifiers and require of DemoSwap.addLiquidity
DemoAddCheck(d, amountA, amountB) ==
    IF d.status = ENTERED THEN "ReentrancyGuardReentrantCall"
    ELSE IF d.paused THEN "EnforcedPause"
    ELSE IF ~(amountA > 0 /\ amountB > 0) THEN "Amounts must be > 0"
    ELSE "ok"

DemoAddLiquidityCall(c, amountA, amountB) ==
    LET args == [aToB |-> FALSE, a1 |-> amountA, a2 |-> amountB, a3 |-> 0]
        chk == DemoAddCheck(demo, amountA, amountB)
    IN  /\ CanCall
        /\ IF chk # "ok"
           THEN Reject(DemoSwapAddr, "addLiquidity", c, args, chk)
           ELSE /\ demo' = [demo EXCEPT !.status = ENTERED]
                /\ Enter(DemoSwapAddr, "addLiquidity", c, args, "pullA", NoLoc)
                /\ UNCHANGED priv

\* the first pull with reserveA already increased after it
DemoAddPullAEager(ok) ==
    /\ AtStep(DemoSwapAddr, "addLiquidity", "pullA")
    /\ IF ~ok \/ demo.balA[Top.caller] < Top.args.a1
       THEN Revert("transfer failed")
       ELSE /\ demo' = [demo EXCEPT
                   !.balA = Transfer(@, Top.caller, DemoSwapAddr, Top.args.a1),
                   !.reserveA = @ + Top.args.a1]
            /\ Goto("pullB")
            /\ UNCHANGED <<priv, last, budget, nested>>

DemoAddPullA(ok) ==
    /\ AtStep(DemoSwapAddr, "addLiquidity", "pullA")
    /\ IF ~ok \/ demo.balA[Top.caller] < Top.args.a1
       THEN Revert("transfer failed")
       ELSE /\ demo' = [demo EXCEPT
                   !.balA = Transfer(@, Top.caller, DemoSwapAddr, Top.args.a1)]
            /\ Goto("pullB")
            /\ UNCHANGED <<priv, last, budget, nested>>

\* the second pull, then the reserve update
DemoAddPullB(ok) ==
    /\ AtStep(DemoSwapAddr, "addLiquidity", "pullB")
    /\ IF ~ok \/ demo.balB[Top.caller] < Top.args.a2
       THEN Revert("transfer failed")
       ELSE /\ demo' = [demo EXCEPT
                   !.balB = Transfer(@, Top.caller, DemoSwapAddr, Top.args.a2),
                   !.reserveA = @ + Top.args.a1,
                   !.reserveB = @ + Top.args.a2]
            /\ Goto("exit")
            /\ UNCHANGED <<priv, last, budget, nested>>

DemoAddExit ==
    /\ AtStep(DemoSwapAddr, "addLiquidity", "exit")
    /\ demo' = [demo EXCEPT !.status = NOT_ENTERED]
    /\ Return(0, [name |-> "LiquidityAdded",
                  args |-> <<Top.caller, Top.args.a1, Top.args.a2>>])
    /\ UNCHANGED priv

\* removeLiquidity requiring the amounts to be below the reserves
DemoRemoveCheckStrict(d, amountA, amountB) ==
    IF d.status = ENTERED THEN "ReentrancyGuardReentrantCall"
    ELSE IF d.paused THEN "EnforcedPause"
    ELSE IF ~(amountA < d.reserveA /\ amountB < d.reserveB)
         THEN "Insufficient liquidity"
    ELSE "ok"

\* the modifiers and require of DemoSwap.removeLiquidity
DemoRemoveCheck(d, amountA, amountB) ==
    IF d.status = ENTERED THEN "ReentrancyGuardReentrantCall"
    ELSE IF d.paused THEN "EnforcedPause"
    ELSE IF ~(amountA <= d.reserveA /\ amountB <= d.reserveB)
         THEN "Insufficient liquidity"
    ELSE "ok"

\* DemoSwap.removeLiquidity: the reserves are decreased before the pushes
DemoRemoveLiquidityCall(c, amountA, amountB) ==
    LET args == [aToB |-> FALSE, a1 |-> amountA, a2 |-> amountB, a3 |-> 0]
        chk == DemoRemoveCheck(demo, amountA, amountB)
    IN  /\ CanCall
        /\ IF chk # "ok"
           THEN Reject(DemoSwapAddr, "removeLiquidity", c, args, chk)
           ELSE /\ demo' = [demo EXCEPT !.status = ENTERED,
                                        !.reserveA = @ - amountA,
                                        !.reserveB = @ - amountB]
                /\ Enter(DemoSwapAddr, "removeLiquidity", c, args, "pushA", NoLoc)
                /\ UNCHANGED priv

DemoRemovePushA(ok) ==
    /\ AtStep(DemoSwapAddr, "removeLiquidity", "pushA")
    /\ IF ~ok \/ demo.balA[DemoSwapAddr] < Top.args.a1
       THEN Revert("transfer failed")
       ELSE /\ demo' = [demo EXCEPT
                   !.balA = Transfer(@, DemoSwapAddr, Top.caller, Top.args.a1)]
            /\ Goto("pushB")
            /\ UNCHANGED <<priv, last, budget, nested>>

DemoRemovePushB(ok) ==
    /\ AtStep(DemoSwapAddr, "removeLiquidity", "pushB")
    /\ IF ~ok \/ demo.balB[DemoSwapAddr] < Top.args.a2
       THEN Revert("transfer failed")
       ELSE /\ demo' = [demo EXCEPT
                   !.balB = Transfer(@, DemoSwapAddr, Top.caller, Top.args.a2)]
            /\ Goto("exit")
            /\ UNCHANGED <<priv, last, budget, nested>>

DemoRemoveExit ==
    /\ AtStep(DemoSwapAddr, "removeLiquidity", "exit")
    /\ demo' = [demo EXCEPT !.status = NOT_ENTERED]
    /\ Return(0, [name |-> "LiquidityRemoved",
                  args |-> <<Top.caller, Top.args.a1, Top.args.a2>>])
    /\ UNCHANGED priv

\* DemoSwap.quote (view)
DemoQuoteCall(c, aToB, amountIn) ==
    /\ CanCall
    /\ Done(DemoSwapAddr, "quote", c,
            [aToB |-> aToB, a1 |-> amountIn, a2 |-> 0, a3 |-> 0],
            quote(demo, aToB, amountIn), NoEvent)
    /\ UNCHANGED <<demo, priv>>

\* updateFee without the require on newFeeNumerator
DemoUpdateFeeCallNoCap(c, newFeeNumerator) ==
    LET args == [aToB |-> FALSE, a1 |-> newFeeNumerator, a2 |-> 0, a3 |-> 0]
    IN  /\ CanCall
        /\ IF c # demo.owner
           THEN Reject(DemoSwapAddr, "updateFee", c, args, "OwnableUnauthorizedAccount")
           ELSE /\ demo' = [demo EXCEPT !.feeNumerator = newFeeNumerator]
                /\ Done(DemoSwapAddr, "updateFee", c, args, 0,
                        [name |-> "FeeUpdated", args |-> <<newFeeNumerator>>])
                /\ UNCHANGED priv

\* DemoSwap.updateFee
DemoUpdateFeeCall(c, newFeeNumerator) ==
    LET args == [aToB |-> FALSE, a1 |-> newFeeNumerator, a2 |-> 0, a3 |-> 0]
    IN  /\ CanCall
        /\ IF c # demo.owner
           THEN Reject(DemoSwapAddr, "updateFee", c, args, "OwnableUnauthorizedAccount")
           ELSE IF ~(newFeeNumerator <= DemoMaxFee)
           THEN Reject(DemoSwapAddr, "updateFee", c, args, "Fee too high")
           ELSE /\ demo' = [demo EXCEPT !.feeNumerator = newFeeNumerator]
                /\ Done(DemoSwapAddr, "updateFee", c, args, 0,
                        [name |-> "FeeUpdated", args |-> <<newFeeNumerator>>])
                /\ UNCHANGED priv

\* DemoSwap.pause and DemoSwap.unpause
DemoPauseCall(c, p) ==
    LET op == IF p THEN "pause" ELSE "unpause"
    IN  /\ CanCall
        /\ IF c # demo.owner
           THEN Reject(DemoSwapAddr, op, c, NoArgs, "OwnableUnauthorizedAccount")
           ELSE IF demo.paused = p
           THEN Reject(DemoSwapAddr, op, c, NoArgs,
                       IF p THEN "EnforcedPause" ELSE "ExpectedPause")
           ELSE /\ demo' = [demo EXCEPT !.paused = p]
                /\ Done(DemoSwapAddr, op, c, NoArgs, 0,
                        [name |-> IF p THEN "Paused" ELSE "Unpaused", args |-> <<c>>])
                /\ UNCHANGED priv

\* onlyOwner and the zero-address check of Ownable.transferOwnership
OwnableCheck(owner, c, newOwner) ==
    IF c # owner THEN "OwnableUnauthorizedAccount"
    ELSE IF newOwner = ZeroAddr THEN "OwnableInvalidOwner"
    ELSE "ok"

OwnerArgs(newOwner) == [aToB |-> FALSE, a1 |-> 0, a2 |-> 0, a3 |-> 0, to |-> newOwner]

\* DemoSwap.transferOwnership (inherited from Ownable)
DemoTransferOwnershipCall(c, newOwner) ==
    LET chk == OwnableCheck(demo.owner, c, newOwner)
    IN  /\ CanCall
        /\ IF chk # "ok"
           THEN Reject(DemoSwapAddr, "transferOwnership", c, OwnerArgs(newOwner), chk)
           ELSE /\ demo' = [demo EXCEPT !.owner = newOwner]
                /\ Done(DemoSwapAddr, "transferOwnership", c, OwnerArgs(newOwner), 0,
                        [name |-> "OwnershipTransferred",
                         args |-> <<demo.owner, newOwner>>])
                /\ UNCHANGED priv

(***************************************************************************)
(* Encrypted integers.  A value of type euint64 is a handle: handle 0 is   *)
(* the uninitialized value, every other handle stands for a plaintext and  *)
(* carries the decryption grants made on it.  Arithmetic wraps modulo      *)
(* 2^width; every operation returns a new handle, on which no grant has    *)
(* been made yet.                                                          *)
(***************************************************************************)
EuintMod == 2 ^ EuintBits
Uninit == [init |-> FALSE, val |-> 0, acl |-> {}]
asEuint64(v) == [init |-> TRUE, val |-> v % EuintMod, acl |-> {}]
isInitialized(e) == e.init
TfheAdd(a, b) == asEuint64(a.val + b.val)
TfheSub(a, b) == asEuint64(a.val - b.val + EuintMod)
TfheMul(a, b) == asEuint64(MulDivMod(a.val, b.val, EuintMod)[2])
TfheMulScalar(a, k) == asEuint64(MulDivMod(a.val, k % EuintMod, EuintMod)[2])
\* TFHE.ge answering yes whatever the operands
TfheGeAlways(a, b) == TRUE
TfheGe(a, b) == a.val >= b.val
TfheSelectFirst(c, a, b) == asEuint64(a.val)
TfheSelect(c, a, b) == asEuint64(IF c THEN a.val ELSE b.val)

\* A grant is <<grantee, kind, transaction>>.  A persistent grant lasts for
\* ever; a transient grant lasts until the end of the transaction that made
\* it (transactions are numbered by the budget left while they run).
CurrentTx == IF stack = <<>> THEN budget - 1 ELSE budget
\* TFHE.allow granting every principal along with the one named
TfheAllowAll(e, who) ==
    [e EXCEPT !.acl = @ \cup {<<p, "persistent", 0>> : p \in Principals \cup {who}}]
TfheAllow(e, who) == [e EXCEPT !.acl = @ \cup {<<who, "persistent", 0>>}]
TfheAllowThis(e) == TfheAllow(e, PrivateSwapAddr)
TfheAllowTransient(e, who) == [e EXCEPT !.acl = @ \cup {<<who, "transient", CurrentTx>>}]
\* the grants on e that are in force in the current state
isAllowed(e, who) ==
    \E g \in e.acl :
       /\ g[1] = who
       /\ g[2] = "persistent" \/ (stack # <<>> /\ g[3] = budget)
\* TFHE.allowThis on both reserves
AllowReserves(p) ==
    [p EXCEPT !.reserveA = TfheAllowThis(@), !.reserveB = TfheAllowThis(@)]
\* TFHE.allowThis and TFHE.allowTransient(., address(this)) on both reserves
AllowReservesInCall(p) ==
    [p EXCEPT !.reserveA = TfheAllowTransient(TfheAllowThis(@), PrivateSwapAddr),
              !.reserveB = TfheAllowTransient(TfheAllowThis(@), PrivateSwapAddr)]
\* the grants addLiquidity and removeLiquidity make on an input amount
AllowAmount(e, token) ==
    TfheAllowTransient(TfheAllowTransient(TfheAllowThis(e), PrivateSwapAddr), token)

\* amount a confidential ledger moves: the whole amount, or nothing when the
\* sender's balance does not cover it
ConfMoved(bal, src, amt) == IF bal[src] >= amt.val THEN amt.val ELSE 0
ConfTransfer(bal, src, dst, amt) == Transfer(bal, src, dst, ConfMoved(bal, src, amt))

(***************************************************************************)
(* PrivateSwap                                                             *)
(***************************************************************************)
PrivTokenIn(isAtoB) == IF isAtoB THEN "tokenA" ELSE "tokenB"
PrivTokenOut(isAtoB) == IF isAtoB THEN "tokenB" ELSE "tokenA"

\* swap and removeLiquidity without the whenNotPaused modifier
PrivCheckNoPause(p) ==
    IF p.status = ENTERED THEN "ReentrancyGuardReentrantCall"
    ELSE IF ~isInitialized(p.reserveA) \/ ~isInitialized(p.reserveB)
         THEN "Reserves not initialized"
    ELSE "ok"

\* the modifiers and requires of PrivateSwap.swap and removeLiquidity
PrivCheck(p) ==
    IF p.paused THEN "EnforcedPause"
    ELSE IF p.status = ENTERED THEN "ReentrancyGuardReentrantCall"
    ELSE IF ~isInitialized(p.reserveA) \/ ~isInitialized(p.reserveB)
         THEN "Reserves not initialized"
    ELSE "ok"

\* PrivateSwap.swap up to its first external call
PrivSwapCall(c, isAtoB, amountIn, expectedAmountOut, minAmountOut) ==
    LET args == [aToB |-> isAtoB, a1 |-> amountIn, a2 |-> expectedAmountOut,
                 a3 |-> minAmountOut]
        chk == PrivCheck(priv)
        decryptedAmountIn == asEuint64(amountIn)
        decryptedExpectedAmountOut == asEuint64(expectedAmountOut)
        decryptedMinAmountOut == asEuint64(minAmountOut)
        isAmountSufficient == TfheGe(decryptedExpectedAmountOut, decryptedMinAmountOut)
        actualTransferAmount ==
            TfheSelect(isAmountSufficient, decryptedExpectedAmountOut, asEuint64(0))
        actualInputAmount ==
            TfheSelect(isAmountSufficient, decryptedAmountIn, asEuint64(0))
    IN  /\ CanCall
        /\ IF chk # "ok"
           THEN Reject(PrivateSwapAddr, "swap", c, args, chk)
           ELSE /\ priv' = [priv EXCEPT !.status = ENTERED]
                /\ Enter(PrivateSwapAddr, "swap", c, args, "pull",
                         [x |-> TfheAllowTransient(actualInputAmount, PrivTokenIn(isAtoB)),
                          y |-> TfheAllowTransient(actualTransferAmount,
                                                   PrivTokenOut(isAtoB))])
                /\ UNCHANGED demo

\* the reserve update of PrivateSwap.swap
PrivSwapReserves(p, isAtoB, actualInputAmount, actualTransferAmount) ==
    IF isAtoB
    THEN [p EXCEPT !.reserveA = TfheAdd(@, actualInputAmount),
                   !.reserveB = TfheSub(@, actualTransferAmount)]
    ELSE [p EXCEPT !.reserveB = TfheAdd(@, actualInputAmount),
                   !.reserveA = TfheSub(@, actualTransferAmount)]

\* confidentialTransferFrom of the input token, then the reserve update
PrivSwapPull(ok) ==
    /\ AtStep(PrivateSwapAddr, "swap", "pull")
    /\ LET f == Top
           pulled == IF f.args.aToB
                     THEN [priv EXCEPT !.balA =
                              ConfTransfer(@, f.caller, PrivateSwapAddr, f.loc.x)]
                     ELSE [priv EXCEPT !.balB =
                              ConfTransfer(@, f.caller, PrivateSwapAddr, f.loc.x)]
       IN  IF ~ok THEN Revert("transfer failed")
           ELSE /\ priv' = PrivSwapReserves(pulled, f.args.aToB, f.loc.x, f.loc.y)
                /\ Goto("push")
                /\ UNCHANGED <<demo, last, budget, nested>>

\* confidentialTransfer of the output token, then allowThis on the reserves
PrivSwapPush(ok) ==
    /\ AtStep(PrivateSwapAddr, "swap", "push")
    /\ LET f == Top
       IN  IF ~ok THEN Revert("transfer failed")
           ELSE /\ priv' = AllowReserves(
                              IF f.args.aToB
                              THEN [priv EXCEPT !.balB =
                                       ConfTransfer(@, PrivateSwapAddr, f.caller, f.loc.y)]
                              ELSE [priv EXCEPT !.balA =
                                       ConfTransfer(@, PrivateSwapAddr, f.caller, f.loc.y)])
                /\ Goto("exit")
                /\ UNCHANGED <<demo, last, budget, nested>>

\* emit SwapExecuted, leave nonReentrant
PrivSwapExit ==
    /\ AtStep(PrivateSwapAddr, "swap", "exit")
    /\ priv' = [priv EXCEPT !.status = NOT_ENTERED]
    /\ Return(0, [name |-> "SwapExecuted",
                  args |-> <<Top.caller, PrivTokenIn(Top.args.aToB),
                             PrivTokenOut(Top.args.aToB), Top.caller>>])
    /\ UNCHANGED demo

\* the modifiers of PrivateSwap.addLiquidity
PrivAddCheck(p) ==
    IF p.paused THEN "EnforcedPause"
    ELSE IF p.status = ENTERED THEN "ReentrancyGuardReentrantCall"
    ELSE "ok"

PrivAddLiquidityCall(c, amountA, amountB) ==
    LET args == [aToB |-> FALSE, a1 |-> amountA, a2 |-> amountB, a3 |-> 0]
        chk == PrivAddCheck(priv)
    IN  /\ CanCall
        /\ IF chk # "ok"
           THEN Reject(PrivateSwapAddr, "addLiquidity", c, args, chk)
           ELSE /\ priv' = [(IF isInitialized(priv.reserveA)
                              THEN AllowReservesInCall(priv) ELSE priv)
                            EXCEPT !.status = ENTERED]
                /\ Enter(PrivateSwapAddr, "addLiquidity", c, args, "pullA",
                         [x |-> AllowAmount(asEuint64(amountA), "tokenA"),
                          y |-> AllowAmount(asEuint64(amountB), "tokenB")])
                /\ UNCHANGED demo

PrivAddPullA(ok) ==
    /\ AtStep(PrivateSwapAddr, "addLiquidity", "pullA")
    /\ IF ~ok THEN Revert("transfer failed")
       ELSE /\ priv' = [priv EXCEPT !.balA =
                          ConfTransfer(@, Top.caller, PrivateSwapAddr, Top.loc.x)]
            /\ Goto("pullB")
            /\ UNCHANGED <<demo, last, budget, nested>>

\* the reserve update of PrivateSwap.addLiquidity
PrivAddReserves(p, decryptedAmountA, decryptedAmountB) ==
    IF ~isInitialized(p.reserveA)
    THEN [p EXCEPT !.reserveA = decryptedAmountA, !.reserveB = decryptedAmountB]
    ELSE [p EXCEPT !.reserveA = TfheAdd(@, decryptedAmountA),
                   !.reserveB = TfheAdd(@, decryptedAmountB)]

PrivAddPullB(ok) ==
    /\ AtStep(PrivateSwapAddr, "addLiquidity", "pullB")
    /\ IF ~ok THEN Revert("transfer failed")
       ELSE /\ priv' = AllowReserves(PrivAddReserves(
                          [priv EXCEPT !.balB =
                             ConfTransfer(@, Top.caller, PrivateSwapAddr, Top.loc.y)],
                          Top.loc.x, Top.loc.y))
            /\ Goto("exit")
            /\ UNCHANGED <<demo, last, budget, nested>>

PrivAddExit ==
    /\ AtStep(PrivateSwapAddr, "addLiquidity", "exit")
    /\ priv' = [priv EXCEPT !.status = NOT_ENTERED]
    /\ Return(0, [name |-> "LiquidityAdded", args |-> <<Top.caller>>])
    /\ UNCHANGED demo

\* PrivateSwap.removeLiquidity up to its first external call
PrivRemoveLiquidityCall(c, amountA, amountB) ==
    LET args == [aToB |-> FALSE, a1 |-> amountA, a2 |-> amountB, a3 |-> 0]
        chk == PrivCheck(priv)
        decryptedAmountA == AllowAmount(asEuint64(amountA), "tokenA")
        decryptedAmountB == AllowAmount(asEuint64(amountB), "tokenB")
        hasEnoughA == TfheGe(priv.reserveA, decryptedAmountA)
        hasEnoughB == TfheGe(priv.reserveB, decryptedAmountB)
        hasEnoughReserves == hasEnoughA /\ hasEnoughB
        actualAmountA == TfheSelect(hasEnoughReserves, decryptedAmountA, asEuint64(0))
        actualAmountB == TfheSelect(hasEnoughReserves, decryptedAmountB, asEuint64(0))
    IN  /\ CanCall
        /\ IF chk # "ok"
           THEN Reject(PrivateSwapAddr, "removeLiquidity", c, args, chk)
           ELSE /\ priv' = [AllowReservesInCall(priv) EXCEPT !.status = ENTERED]
                /\ Enter(PrivateSwapAddr, "removeLiquidity", c, args, "pushA",
                         [x |-> TfheAllowTransient(actualAmountA, "tokenA"),
                          y |-> TfheAllowTransient(actualAmountB, "tokenB")])
                /\ UNCHANGED demo

PrivRemovePushA(ok) ==
    /\ AtStep(PrivateSwapAddr, "removeLiquidity", "pushA")
    /\ IF ~ok THEN Revert("transfer failed")
       ELSE /\ priv' = [priv EXCEPT !.balA =
                          ConfTransfer(@, PrivateSwapAddr, Top.caller, Top.loc.x)]
            /\ Goto("pushB")
            /\ UNCHANGED <<demo, last, budget, nested>>

\* the second push, then the reserve update
PrivRemovePushB(ok) ==
    /\ AtStep(PrivateSwapAddr, "removeLiquidity", "pushB")
    /\ IF ~ok THEN Revert("transfer failed")
       ELSE /\ priv' = AllowReserves([priv EXCEPT
                   !.balB = ConfTransfer(@, PrivateSwapAddr, Top.caller, Top.loc.y),
                   !.reserveA = TfheSub(@, Top.loc.x),
                   !.reserveB = TfheSub(@, Top.loc.y)])
            /\ Goto("exit")
            /\ UNCHANGED <<demo, last, budget, nested>>

PrivRemoveExit ==
    /\ AtStep(PrivateSwapAddr, "removeLiquidity", "exit")
    /\ priv' = [priv EXCEPT !.status = NOT_ENTERED]
    /\ Return(0, [name |-> "LiquidityRemoved", args |-> <<Top.caller>>])
    /\ UNCHANGED demo

\* getQuote keeping one ticket for all callers instead of one per caller
getQuoteShared(c, amountIn, isAtoB) ==
    LET args == [aToB |-> isAtoB, a1 |-> amountIn, a2 |-> 0, a3 |-> 0]
        encryptedAmountIn == asEuint64(amountIn)
        reserveIn == IF isAtoB THEN priv.reserveA ELSE priv.reserveB
        reserveOut == IF isAtoB THEN priv.reserveB ELSE priv.reserveA
        feeMultiplier == FEE_DENOMINATOR - priv.swapFee
        amountInWithFee == TfheMulScalar(encryptedAmountIn, feeMultiplier)
        numerator == TfheMul(amountInWithFee, reserveOut)
        denominator == TfheAdd(TfheMulScalar(reserveIn, FEE_DENOMINATOR), amountInWithFee)
    IN  /\ CanCall
        /\ IF ~isInitialized(priv.reserveA) \/ ~isInitialized(priv.reserveB)
           THEN Reject(PrivateSwapAddr, "getQuote", c, args, "Reserves not initialized")
           ELSE /\ priv' = [priv EXCEPT
                              !.lastNumerator =
                                 [p \in Principals |-> TfheAllow(TfheAllowThis(numerator), c)],
                              !.lastDenominator =
                                 [p \in Principals |-> TfheAllow(TfheAllowThis(denominator), c)]]
                /\ Done(PrivateSwapAddr, "getQuote", c, args, 0,
                        [name |-> "QuoteCalculated",
                         args |-> <<c, PrivTokenIn(isAtoB)>>])
                /\ UNCHANGED demo

\* PrivateSwap.getQuote
getQuote(c, amountIn, isAtoB) ==
    LET args == [aToB |-> isAtoB, a1 |-> amountIn, a2 |-> 0, a3 |-> 0]
        encryptedAmountIn == asEuint64(amountIn)
        reserveIn == IF isAtoB THEN priv.reserveA ELSE priv.reserveB
        reserveOut == IF isAtoB THEN priv.reserveB ELSE priv.reserveA
        feeMultiplier == FEE_DENOMINATOR - priv.swapFee
        amountInWithFee == TfheMulScalar(encryptedAmountIn, feeMultiplier)
        numerator == TfheMul(amountInWithFee, reserveOut)
        denominator == TfheAdd(TfheMulScalar(reserveIn, FEE_DENOMINATOR), amountInWithFee)
    IN  /\ CanCall
        /\ IF ~isInitialized(priv.reserveA) \/ ~isInitialized(priv.reserveB)
           THEN Reject(PrivateSwapAddr, "getQuote", c, args, "Reserves not initialized")
           ELSE /\ priv' = [priv EXCEPT
                              !.lastNumerator[c] = TfheAllow(TfheAllowThis(numerator), c),
                              !.lastDenominator[c] = TfheAllow(TfheAllowThis(denominator), c)]
                /\ Done(PrivateSwapAddr, "getQuote", c, args, 0,
                        [name |-> "QuoteCalculated",
                         args |-> <<c, PrivTokenIn(isAtoB)>>])
                /\ UNCHANGED demo

\* PrivateSwap.setSwapFee
PrivSetSwapFeeCall(c, newFee) ==
    LET args == [aToB |-> FALSE, a1 |-> newFee, a2 |-> 0, a3 |-> 0]
    IN  /\ CanCall
        /\ IF c # priv.owner
           THEN Reject(PrivateSwapAddr, "setSwapFee", c, args, "OwnableUnauthorizedAccount")
           ELSE IF ~(newFee <= MAX_FEE)
           THEN Reject(PrivateSwapAddr, "setSwapFee", c, args, "Fee exceeds maximum")
           ELSE /\ priv' = [priv EXCEPT !.swapFee = newFee]
                /\ Done(PrivateSwapAddr, "setSwapFee", c, args, 0,
                        [name |-> "FeeUpdated", args |-> <<priv.swapFee, newFee>>])
                /\ UNCHANGED demo

\* PrivateSwap.pause and PrivateSwap.unpause
PrivPauseCall(c, p) ==
    LET op == IF p THEN "pause" ELSE "unpause"
    IN  /\ CanCall
        /\ IF c # priv.owner
           THEN Reject(PrivateSwapAddr, op, c, NoArgs, "OwnableUnauthorizedAccount")
           ELSE IF priv.paused = p
           THEN Reject(PrivateSwapAddr, op, c, NoArgs,
                       IF p THEN "EnforcedPause" ELSE "ExpectedPause")
           ELSE /\ priv' = [priv EXCEPT !.paused = p]
                /\ Done(PrivateSwapAddr, op, c, NoArgs, 0,
                        [name |-> IF p THEN "Paused" ELSE "Unpaused", args |-> <<c>>])
                /\ UNCHANGED demo

\* PrivateSwap.transferOwnership (inherited from Ownable)
PrivTransferOwnershipCall(c, newOwner) ==
    LET chk == OwnableCheck(priv.owner, c, newOwner)
    IN  /\ CanCall
        /\ IF chk # "ok"
           THEN Reject(PrivateSwapAddr, "transferOwnership", c, OwnerArgs(newOwner), chk)
           ELSE /\ priv' = [priv EXCEPT !.owner = newOwner]
                /\ Done(PrivateSwapAddr, "transferOwnership", c, OwnerArgs(newOwner), 0,
                        [name |-> "OwnershipTransferred",
                         args |-> <<priv.owner, newOwner>>])
                /\ UNCHANGED demo

(***************************************************************************)
(* EncryptedPUSD                                                           *)
(***************************************************************************)
\* transferOwnership without the require on newOwner
PusdOwnershipCheckNoZero(t, c, newOwner) ==
    IF ~(c = t.owner) THEN "Only owner can call this" ELSE "ok"

\* the onlyOwner modifier and the require of EncryptedPUSD.transferOwnership
PusdOwnershipCheck(t, c, newOwner) ==
    IF ~(c = t.owner) THEN "Only owner can call this"
    ELSE IF ~(newOwner # ZeroAddr) THEN "New owner cannot be zero address"
    ELSE "ok"

\* EncryptedPUSD.transferOwnership
PusdTransferOwnershipCall(c, newOwner) ==
    LET chk == PusdOwnershipCheck(pusd, c, newOwner)
    IN  /\ CanCall
        /\ Spend
        /\ pusd' = IF chk = "ok" THEN [pusd EXCEPT !.owner = newOwner] ELSE pusd
        /\ last' = Result(EncryptedPUSDAddr, "transferOwnership", c,
                          OwnerArgs(newOwner), chk, 0, NoEvent)
        /\ UNCHANGED <<demo, priv, faucet, stack>>

(***************************************************************************)
(* Faucet service (src/server/routes.ts with the storage of                *)
(* src/unnamed/part_000, and the serverless handler src/api/[...path].ts). *)
(* Both work on the same stored settings.  A handler runs up to its next   *)
(* await in one step; the handlers of different requests interleave at     *)
(* their awaits.  Time is in milliseconds since the start of the service   *)
(* day.                                                                    *)
(***************************************************************************)
ADMIN_ADDRESS == "0xF981"
OtherAddress == "0xab"
FIVE_MINUTES_MS == 5 * 60 * 1000
HourMs == 60 * 60 * 1000
StartTime == HourMs
TickMs == 12 * HourMs

\* String.toLowerCase on the addresses of the model
ToLower(a) ==
    IF a = "0xF981" THEN "0xf981" ELSE IF a = "0xAB" THEN "0xab" ELSE a
\* /^0x[a-fA-F0-9]{40}$/
ValidAddress(a) == a \in {"0xab", "0xAB", "0xf981", "0xF981"}
FaucetTokens == {"PUSD", "PETH", "ePUSD", "ePETH"}
Abs(x) == IF x < 0 THEN -x ELSE x

Requests == 1..MaxRequests
DefaultSettings == [enabled |-> TRUE, cooldownHours |-> 24]
IdleReq == [pc |-> "idle", address |-> "", token |-> "", cooldownHours |-> 0, status |-> 0]
NoPut == [endpoint |-> "none",
          req |-> [address |-> "", signer |-> "", hasTimestamp |-> FALSE, timestamp |-> 0,
                   body |-> [hasEnabled |-> FALSE, enabled |-> FALSE,
                             hasCooldown |-> FALSE, cooldownHours |-> 0]],
          at |-> 0, status |-> 0]

\* database: DATABASE_URL is set (DatabaseStorage) or not (MemStorage)
FaucetInit(database, settings) ==
    [database |-> database, settings |-> settings, claims |-> {}, mints |-> {},
     now |-> StartTime, reqs |-> [r \in Requests |-> IdleReq], lastPut |-> NoPut]

PoolsIdle == UNCHANGED <<demo, priv, pusd, stack, last, budget, nested>>

\* time passes
Tick ==
    /\ faucet.now < StartTime + MaxTicks * TickMs
    /\ faucet' = [faucet EXCEPT !.now = @ + TickMs]
    /\ PoolsIdle

\* the claims getLastClaim(address) selects from: MemStorage compares the
\* lower-cased addresses, DatabaseStorage compares the stored text
ClaimsOf(f, address) ==
    {c \in f.claims :
        IF f.database THEN c.address = address
        ELSE ToLower(c.address) = ToLower(address)}

\* claimedAt of getLastClaim(address): the latest of the selected claims
LastClaimedAt(f, address) ==
    CHOOSE t \in {c.claimedAt : c \in ClaimsOf(f, address)} :
       \A c \in ClaimsOf(f, address) : c.claimedAt <= t

Respond(r, code) ==
    faucet' = [faucet EXCEPT !.reqs[r].pc = "done", !.reqs[r].status = code]

\* POST /api/faucet up to the end of `await storage.getFaucetSettings()`
FaucetPost(r, address, token) ==
    /\ faucet.reqs[r].pc = "idle"
    /\ LET q == [faucet.reqs[r] EXCEPT !.address = address, !.token = token]
       IN  IF address = "" \/ token = ""
           THEN faucet' = [faucet EXCEPT !.reqs[r] = [q EXCEPT !.pc = "done", !.status = 400]]
           ELSE IF ~ValidAddress(address)
           THEN faucet' = [faucet EXCEPT !.reqs[r] = [q EXCEPT !.pc = "done", !.status = 400]]
           ELSE IF token \notin FaucetTokens
           THEN faucet' = [faucet EXCEPT !.reqs[r] = [q EXCEPT !.pc = "done", !.status = 400]]
           ELSE IF ~faucet.settings.enabled
           THEN faucet' = [faucet EXCEPT !.reqs[r] = [q EXCEPT !.pc = "done", !.status = 503]]
           ELSE faucet' = [faucet EXCEPT !.reqs[r] =
                              [q EXCEPT !.pc = "lastClaim",
                                        !.cooldownHours = faucet.settings.cooldownHours]]
    /\ PoolsIdle

\* `await storage.getLastClaim(address)` and the cooldown check
FaucetCheckCooldown(r) ==
    /\ faucet.reqs[r].pc = "lastClaim"
    /\ LET q == faucet.reqs[r]
           cooldownMs == q.cooldownHours * 60 * 60 * 1000
       IN  IF /\ ClaimsOf(faucet, q.address) # {}
              /\ faucet.now - LastClaimedAt(faucet, q.address) < cooldownMs
           THEN Respond(r, 429)
           ELSE faucet' = [faucet EXCEPT !.reqs[r].pc = "mint"]
    /\ PoolsIdle

\* `await walletClient.writeContract(...)`: the mint transaction is sent, or
\* the call throws
FaucetMint(r, ok) ==
    /\ faucet.reqs[r].pc = "mint"
    /\ LET q == faucet.reqs[r]
       IN  IF ~ok THEN Respond(r, 500)
           ELSE faucet' = [faucet EXCEPT
                   !.mints = @ \cup {[req |-> r, address |-> q.address, token |-> q.token,
                                      at |-> faucet.now, cooldownHours |-> q.cooldownHours]},
                   !.reqs[r].pc = "record"]
    /\ PoolsIdle

\* `await storage.recordFaucetClaim(...)` and the response
FaucetRecord(r) ==
    /\ faucet.reqs[r].pc = "record"
    /\ LET q == faucet.reqs[r]
       IN  faucet' = [faucet EXCEPT
              !.claims = @ \cup {[address |-> q.address, token |-> q.token,
                                  claimedAt |-> faucet.now]},
              !.reqs[r].pc = "done",
              !.reqs[r].status = 200]
    /\ PoolsIdle

\* verifyAdminSignature: verifyMessage succeeds when the signature over the
\* message was made by ADMIN_ADDRESS (req.signer is the signing address, ""
\* when the request has no signature)
verifyAdminSignature(req, currentTime) ==
    IF req.signer # ADMIN_ADDRESS THEN "Invalid signature"
    ELSE IF ~req.hasTimestamp THEN "Missing timestamp in message"
    ELSE IF Abs(currentTime - req.timestamp) > FIVE_MINUTES_MS
         THEN "Signature expired (> 5 minutes old)"
    ELSE "ok"

\* the fields of the request body that are stored
ApplyUpdates(settings, body) ==
    [enabled |-> IF body.hasEnabled THEN body.enabled ELSE settings.enabled,
     cooldownHours |-> IF body.hasCooldown THEN body.cooldownHours
                       ELSE settings.cooldownHours]

PutDone(endpoint, req, code) ==
    faucet' = [faucet EXCEPT
       !.settings = IF code = 200 THEN ApplyUpdates(@, req.body) ELSE @,
       !.lastPut = [endpoint |-> endpoint, req |-> req, at |-> faucet.now,
                    status |-> code]]

\* PUT /api/faucet/settings of src/server/routes.ts
ServerPutSettings(req) ==
    /\ PutDone("server", req,
          IF req.address = "" \/ req.signer = "" THEN 400
          ELSE IF ToLower(req.address) # ToLower(ADMIN_ADDRESS) THEN 403
          ELSE IF verifyAdminSignature(req, faucet.now) # "ok" THEN 403
          ELSE 200)
    /\ PoolsIdle

\* PUT /faucet/settings of src/api/[...path].ts
ApiPutSettings(req) ==
    /\ PutDone("api", req,
          IF req.address = "" THEN 400
          ELSE IF ToLower(req.address) # ToLower(ADMIN_ADDRESS) THEN 403
          ELSE 200)
    /\ PoolsIdle

(***************************************************************************)
(* Initial states.  Each behaviour starts from a pool state that a         *)
(* deployment reaches by addLiquidity, updateFee/setSwapFee and pause      *)
(* calls (the reserves equal the pool's holdings), and runs `budget`       *)
(* transactions on it.                                                     *)
(***************************************************************************)
\* <<reserveA, reserveB, feeNumerator, paused>>
DemoScenarios ==
    {<<0, 0, 30, FALSE>>, <<1, 2, 30, FALSE>>, <<3, 3, 30, FALSE>>,
     <<99, 2, 100, FALSE>>, <<9970, 2, 30, FALSE>>, <<1, 2, 30, TRUE>>,
     <<1000000, 500000, 30, FALSE>>}
DemoDefault == <<1, 2, 30, FALSE>>

DemoInit(s) ==
    [reserveA |-> s[1], reserveB |-> s[2], feeNumerator |-> s[3],
     paused |-> s[4], owner |-> "alice", status |-> NOT_ENTERED,
     balA |-> [h \in DemoHolders |->
                 IF h = DemoSwapAddr THEN s[1] ELSE IF h = "alice" THEN 20000 ELSE 1],
     balB |-> [h \in DemoHolders |->
                 IF h = DemoSwapAddr THEN s[2] ELSE IF h = "alice" THEN 20000 ELSE 1]]

\* <<initialized, reserveA, reserveB, swapFee, paused>>
PrivScenarios ==
    {<<FALSE, 0, 0, 30, FALSE>>, <<TRUE, 1, 2, 30, FALSE>>,
     <<TRUE, 2, 2, 1000, FALSE>>, <<TRUE, 1, 2, 30, TRUE>>}
PrivDefault == <<TRUE, 1, 2, 30, FALSE>>

PrivInit(s) ==
    [reserveA |-> IF s[1] THEN TfheAllowThis(asEuint64(s[2])) ELSE Uninit,
     reserveB |-> IF s[1] THEN TfheAllowThis(asEuint64(s[3])) ELSE Uninit,
     swapFee |-> s[4], paused |-> s[5], owner |-> "alice", status |-> NOT_ENTERED,
     lastNumerator |-> [p \in Principals |-> Uninit],
     lastDenominator |-> [p \in Principals |-> Uninit],
     balA |-> [h \in PrivHolders |->
                 IF h = PrivateSwapAddr THEN s[2] ELSE IF h = "alice" THEN 3 ELSE 0],
     balB |-> [h \in PrivHolders |->
                 IF h = PrivateSwapAddr THEN s[3] ELSE IF h = "alice" THEN 3 ELSE 0]]

\* the constructor of EncryptedPUSD
PusdInit == [owner |-> "alice"]

Init ==
    /\ \/ \E s \in DemoScenarios : demo = DemoInit(s) /\ priv = PrivInit(PrivDefault)
       \/ \E s \in PrivScenarios : demo = DemoInit(DemoDefault) /\ priv = PrivInit(s)
    /\ pusd = PusdInit
    /\ faucet = FaucetInit(FALSE, DefaultSettings)
    /\ stack = <<>>
    /\ last = NoCall
    /\ budget = 1
    /\ nested = 0

DemoNext ==
    \/ \E c \in Callers, aToB \in Directions, x \in SwapAmountsIn, m \in SwapMinOuts :
          DemoSwapCall(c, aToB, x, m)
    \/ \E ok \in BOOLEAN : DemoSwapPull(ok)
    \/ \E ok \in BOOLEAN : DemoSwapPush(ok)
    \/ DemoSwapExit
    \/ \E c \in Callers, a \in LiquidityAmounts, b \in LiquidityAmounts :
          DemoAddLiquidityCall(c, a, b)
    \/ \E ok \in BOOLEAN : DemoAddPullA(ok)
    \/ \E ok \in BOOLEAN : DemoAddPullB(ok)
    \/ DemoAddExit
    \/ \E c \in Callers, a \in LiquidityAmounts, b \in LiquidityAmounts :
          DemoRemoveLiquidityCall(c, a, b)
    \/ \E ok \in BOOLEAN : DemoRemovePushA(ok)
    \/ \E ok \in BOOLEAN : DemoRemovePushB(ok)
    \/ DemoRemoveExit
    \/ \E c \in Callers, aToB \in Directions, x \in SwapAmountsIn :
          DemoQuoteCall(c, aToB, x)
    \/ \E c \in Callers, n \in DemoFeeInputs : DemoUpdateFeeCall(c, n)
    \/ \E c \in Callers, p \in PauseInputs : DemoPauseCall(c, p)
    \/ \E c \in Callers, o \in NewOwners : DemoTransferOwnershipCall(c, o)

PrivNext ==
    \/ \E c \in Callers, isAtoB \in Directions, t \in PrivSwapInputs :
          PrivSwapCall(c, isAtoB, t[1], t[2], t[3])
    \/ \E ok \in BOOLEAN : PrivSwapPull(ok)
    \/ \E ok \in BOOLEAN : PrivSwapPush(ok)
    \/ PrivSwapExit
    \/ \E c \in Callers, a \in PrivLiquidityAmounts, b \in PrivLiquidityAmounts :
          PrivAddLiquidityCall(c, a, b)
    \/ \E ok \in BOOLEAN : PrivAddPullA(ok)
    \/ \E ok \in BOOLEAN : PrivAddPullB(ok)
    \/ PrivAddExit
    \/ \E c \in Callers, a \in PrivLiquidityAmounts, b \in PrivLiquidityAmounts :
          PrivRemoveLiquidityCall(c, a, b)
    \/ \E ok \in BOOLEAN : PrivRemovePushA(ok)
    \/ \E ok \in BOOLEAN : PrivRemovePushB(ok)
    \/ PrivRemoveExit
    \/ \E c \in Callers, isAtoB \in Directions, x \in PrivQuoteAmounts :
          getQuote(c, x, isAtoB)
    \/ \E c \in Callers, n \in PrivFeeInputs : PrivSetSwapFeeCall(c, n)
    \/ \E c \in Callers, p \in PauseInputs : PrivPauseCall(c, p)
    \/ \E c \in Callers, o \in NewOwners : PrivTransferOwnershipCall(c, o)

PusdNext ==
    \E c \in Callers, o \in NewOwners : PusdTransferOwnershipCall(c, o)

Next == DemoNext \/ PrivNext \/ PusdNext

Spec == Init /\ [][Next]_vars

(***************************************************************************)
(* Sequences of transactions.  SpecSeq runs MaxCalls transactions one      *)
(* after the other on the two pools and the token; the ledgers do not call *)
(* back (the call-backs are explored by Spec).                             *)
(***************************************************************************)
\* <<DemoSwap scenario, PrivateSwap scenario>>
SeqScenarios ==
    {<<<<1, 2, 30, FALSE>>, <<TRUE, 1, 2, 30, FALSE>>>>,
     <<<<3, 3, 30, TRUE>>, <<TRUE, 1, 2, 30, TRUE>>>>,
     <<<<1000000, 500000, 30, FALSE>>, <<FALSE, 0, 0, 30, FALSE>>>>,
     <<<<1, 2, 30, FALSE>>, <<TRUE, EuintMod - 1, 2, 30, FALSE>>>>}

\* inputs of the transactions of SpecSeq
SeqTrader == "alice"
SeqDemoSwaps == {<<0, 0>>, <<1, 0>>, <<1, 2>>, <<10000, 0>>}
SeqPairs == {<<1, 1>>, <<0, 1>>, <<3, 1>>}
SeqQuoteAmounts == {10000}
SeqDemoFees == {<<"alice", 100>>, <<"alice", 1000>>, <<"bob", 0>>}
SeqPrivSwaps == {<<1, 1, 0>>, <<1, 1, 2>>, <<0, 2, 0>>}
SeqPrivQuoteAmounts == {1}
SeqPrivFees == {<<"alice", 1000>>, <<"alice", 1001>>, <<"bob", 0>>}
SeqOwners == {<<"alice", "bob">>, <<"alice", ZeroAddr>>, <<"bob", "bob">>}

InitSeq ==
    /\ \E s \in SeqScenarios : demo = DemoInit(s[1]) /\ priv = PrivInit(s[2])
    /\ pusd = PusdInit
    /\ faucet = FaucetInit(FALSE, DefaultSettings)
    /\ stack = <<>>
    /\ last = NoCall
    /\ budget = MaxCalls
    /\ nested = MaxNested

DemoSeqNext ==
    \/ \E t \in SeqDemoSwaps : DemoSwapCall(SeqTrader, TRUE, t[1], t[2])
    \/ \E ok \in BOOLEAN : DemoSwapPull(ok)
    \/ \E ok \in BOOLEAN : DemoSwapPush(ok)
    \/ DemoSwapExit
    \/ \E t \in SeqPairs : DemoAddLiquidityCall(SeqTrader, t[1], t[2])
    \/ \E ok \in BOOLEAN : DemoAddPullA(ok)
    \/ \E ok \in BOOLEAN : DemoAddPullB(ok)
    \/ DemoAddExit
    \/ \E t \in SeqPairs : DemoRemoveLiquidityCall(SeqTrader, t[1], t[2])
    \/ \E ok \in BOOLEAN : DemoRemovePushA(ok)
    \/ \E ok \in BOOLEAN : DemoRemovePushB(ok)
    \/ DemoRemoveExit
    \/ \E x \in SeqQuoteAmounts : DemoQuoteCall(SeqTrader, TRUE, x)
    \/ \E t \in SeqDemoFees : DemoUpdateFeeCall(t[1], t[2])
    \/ \E c \in Principals, p \in BOOLEAN : DemoPauseCall(c, p)
    \/ \E t \in SeqOwners : DemoTransferOwnershipCall(t[1], t[2])

PrivSeqNext ==
    \/ \E t \in SeqPrivSwaps : PrivSwapCall(SeqTrader, TRUE, t[1], t[2], t[3])
    \/ \E ok \in BOOLEAN : PrivSwapPull(ok)
    \/ \E ok \in BOOLEAN : PrivSwapPush(ok)
    \/ PrivSwapExit
    \/ \E t \in SeqPairs : PrivAddLiquidityCall(SeqTrader, t[1], t[2])
    \/ \E ok \in BOOLEAN : PrivAddPullA(ok)
    \/ \E ok \in BOOLEAN : PrivAddPullB(ok)
    \/ PrivAddExit
    \/ \E t \in SeqPairs : PrivRemoveLiquidityCall(SeqTrader, t[1], t[2])
    \/ \E ok \in BOOLEAN : PrivRemovePushA(ok)
    \/ \E ok \in BOOLEAN : PrivRemovePushB(ok)
    \/ PrivRemoveExit
    \/ \E c \in Principals, x \in SeqPrivQuoteAmounts : getQuote(c, x, TRUE)
    \/ \E t \in SeqPrivFees : PrivSetSwapFeeCall(t[1], t[2])
    \/ \E c \in Principals, p \in BOOLEAN : PrivPauseCall(c, p)
    \/ \E t \in SeqOwners : PrivTransferOwnershipCall(t[1], t[2])

PusdSeqNext ==
    \E t \in SeqOwners : PusdTransferOwnershipCall(t[1], t[2])

NextSeq == DemoSeqNext \/ PrivSeqNext \/ PusdSeqNext

SpecSeq == InitSeq /\ [][NextSeq]_vars

(***************************************************************************)
(* Pairs of quotes.  SpecQuote asks DemoSwap for two quotes, one after the *)
(* other, on reserves and a fee that stay as they are.                     *)
(***************************************************************************)
\* <<reserveA, reserveB, feeNumerator, paused>>
QuoteScenarios ==
    {<<1, 2, 30, FALSE>>, <<3, 3, 0, FALSE>>, <<99, 2, 100, FALSE>>,
     <<7, 1000, 1, FALSE>>, <<1000000, 500000, 30, FALSE>>,
     <<1000000, 500000, 100, FALSE>>}

\* amountIn of the quotes: the small amounts, and the amounts around which
\* floor(amountIn * feeNumerator / 10000) steps up for the fees 100 and 30
QuoteAmountsIn == (0..MaxQuoteIn) \cup {99, 100, 101, 333, 334, 9999, 10000, 10001}

InitQuote ==
    /\ \E s \in QuoteScenarios : demo = DemoInit(s)
    /\ priv = PrivInit(PrivDefault)
    /\ pusd = PusdInit
    /\ faucet = FaucetInit(FALSE, DefaultSettings)
    /\ stack = <<>>
    /\ last = NoCall
    /\ budget = 2
    /\ nested = MaxNested

NextQuote ==
    \E aToB \in BOOLEAN, x \in QuoteAmountsIn : DemoQuoteCall(SeqTrader, aToB, x)

SpecQuote == InitQuote /\ [][NextQuote]_vars

(***************************************************************************)
(* The faucet.  SpecFaucet runs MaxRequests concurrent POST /api/faucet    *)
(* requests while time passes; SpecAdmin sends settings updates to both    *)
(* endpoints.                                                              *)
(***************************************************************************)
\* <<address, token>> of a faucet request; 0xab and 0xAB are two spellings of
\* the address of one wallet
FaucetInputs == {<<"0xab", "PUSD">>, <<"0xAB", "ePETH">>, <<"0xab", "DOGE">>, <<"", "PUSD">>}

InitFaucet ==
    /\ demo = DemoInit(DemoDefault)
    /\ priv = PrivInit(PrivDefault)
    /\ pusd = PusdInit
    /\ \E database \in BOOLEAN, enabled \in BOOLEAN :
          faucet = FaucetInit(database, [DefaultSettings EXCEPT !.enabled = enabled])
    /\ stack = <<>>
    /\ last = NoCall
    /\ budget = 0
    /\ nested = MaxNested

NextFaucet ==
    \/ \E r \in Requests, t \in FaucetInputs : FaucetPost(r, t[1], t[2])
    \/ \E r \in Requests : FaucetCheckCooldown(r)
    \/ \E r \in Requests, ok \in BOOLEAN : FaucetMint(r, ok)
    \/ \E r \in Requests : FaucetRecord(r)
    \/ Tick

SpecFaucet == InitFaucet /\ [][NextFaucet]_vars

\* settings updates: who the request names, who signed its message, and the
\* timestamp of the message relative to the time of the request
PutBodies ==
    {[hasEnabled |-> TRUE, enabled |-> FALSE, hasCooldown |-> FALSE, cooldownHours |-> 0],
     [hasEnabled |-> FALSE, enabled |-> FALSE, hasCooldown |-> TRUE, cooldownHours |-> 1]}
\* <<address, signer, hasTimestamp, timestamp - now>>
PutShapes ==
    {<<"0xf981", ADMIN_ADDRESS, TRUE, 0>>,
     <<"0xf981", ADMIN_ADDRESS, TRUE, -FIVE_MINUTES_MS>>,
     <<"0xf981", ADMIN_ADDRESS, TRUE, -(FIVE_MINUTES_MS + 1)>>,
     <<"0xf981", ADMIN_ADDRESS, TRUE, FIVE_MINUTES_MS + 1>>,
     <<"0xf981", ADMIN_ADDRESS, FALSE, 0>>,
     <<"0xf981", OtherAddress, TRUE, 0>>,
     <<"0xf981", "", FALSE, 0>>,
     <<OtherAddress, ADMIN_ADDRESS, TRUE, 0>>,
     <<OtherAddress, OtherAddress, TRUE, 0>>,
     <<"", "", FALSE, 0>>}
PutRequests ==
    {[address |-> t[1], signer |-> t[2], hasTimestamp |-> t[3],
      timestamp |-> IF t[3] THEN faucet.now + t[4] ELSE 0, body |-> b] :
        t \in PutShapes, b \in PutBodies}

InitAdmin ==
    /\ demo = DemoInit(DemoDefault)
    /\ priv = PrivInit(PrivDefault)
    /\ pusd = PusdInit
    /\ \E database \in BOOLEAN : faucet = FaucetInit(database, DefaultSettings)
    /\ stack = <<>>
    /\ last = NoCall
    /\ budget = 0
    /\ nested = MaxNested

NextAdmin ==
    \/ \E req \in PutRequests : ServerPutSettings(req)
    \/ \E req \in PutRequests : ApiPutSettings(req)
    \/ Tick

SpecAdmin == InitAdmin /\ [][NextAdmin]_vars

TypeOK ==
    /\ budget \in 0..MaxCalls
    /\ nested \in 0..MaxNested
    /\ Len(stack) <= MaxDepth

(***************************************************************************)
(* Vocabulary of the properties.                                           *)
(***************************************************************************)
Frames(pool) == {i \in 1..Len(stack) : stack[i].pool = pool}
InFlight(pool) == Frames(pool) # {}
MutatingOps == {"swap", "addLiquidity", "removeLiquidity"}

\* the step is a call (a transaction or a nested call) ...
IsCall == budget' # budget \/ nested' # nested
\* ... that passed its entry checks
Pushed == Len(stack') = Len(stack) + 1
CalledPool == IF Pushed THEN stack'[Len(stack')].pool ELSE last'.pool
CalledOp == IF Pushed THEN stack'[Len(stack')].op ELSE last'.op
CalledArgs == IF Pushed THEN stack'[Len(stack')].args ELSE last'.args

\* a*b as <<high, low>> digits, and the order on such pairs
Wide(a, b) == MulDivMod(a, b, 32768)
WideLess(p, q) == p[1] < q[1] \/ (p[1] = q[1] /\ p[2] < q[2])

PrivSwapFrame(f) == f.pool = PrivateSwapAddr /\ f.op = "swap"
DemoSwapFrame(f) == f.pool = DemoSwapAddr /\ f.op = "swap"

PrivUntouched(f) ==
    /\ priv.reserveA.val = f.snap.priv.reserveA.val
    /\ priv.reserveB.val = f.snap.priv.reserveB.val
    /\ priv.balA = f.snap.priv.balA
    /\ priv.balB = f.snap.priv.balB

(***************************************************************************)
(* C1.  A PrivateSwap.swap with expectedAmountOut < minAmountOut is not    *)
(* rejected for it: it runs with actualInputAmount = actualTransferAmount  *)
(* = 0, at every point of the call the plaintext reserves and all token    *)
(* balances equal their values before the call, and it returns with the    *)
(* SwapExecuted event every swap emits (sender, tokenIn, tokenOut, to, no  *)
(* amount).  It can only fail for the reasons a real swap fails.           *)
(***************************************************************************)
C1_ObliviousFail ==
    /\ \A i \in 1..Len(stack) :
          (PrivSwapFrame(stack[i]) /\ stack[i].args.a2 < stack[i].args.a3) =>
             /\ stack[i].loc.x.val = 0
             /\ stack[i].loc.y.val = 0
             /\ PrivUntouched(stack[i])
    /\ (last.pool = PrivateSwapAddr /\ last.op = "swap" /\ last.args.a2 < last.args.a3) =>
          /\ last.res \in {"ok", "EnforcedPause", "ReentrancyGuardReentrantCall",
                           "Reserves not initialized", "transfer failed"}
          /\ last.res = "ok" =>
                last.event = [name |-> "SwapExecuted",
                              args |-> <<last.caller, PrivTokenIn(last.args.aToB),
                                         PrivTokenOut(last.args.aToB), last.caller>>]

C1_Witness ==
    /\ last.pool = PrivateSwapAddr /\ last.op = "swap" /\ last.res = "ok"
    /\ last.args.a1 > 0 /\ last.args.a2 < last.args.a3
    /\ stack = <<>>

(***************************************************************************)
(* C2.  A PrivateSwap.swap that changes a plaintext reserve or a token     *)
(* balance was called by a principal who held a quote ticket (a stored     *)
(* numerator from getQuote) when the swap began.                           *)
(***************************************************************************)
C2_SwapNeedsQuote ==
    \A i \in 1..Len(stack) :
       (PrivSwapFrame(stack[i]) /\ ~PrivUntouched(stack[i])) =>
          isInitialized(stack[i].snap.priv.lastNumerator[stack[i].caller])

(***************************************************************************)
(* C3.  DemoSwap.quote returns floor(a' * reserveOut / (reserveIn + a'))   *)
(* with a' = amountIn - floor(amountIn * fee / 10000), and 0 when amountIn *)
(* or a reserve is 0; reserves 1,000,000 / 500,000 with fee 30 and         *)
(* amountIn 10,000 give 4,935.                                             *)
(***************************************************************************)
\* the formula of the specification in the checker's own arithmetic, for
\* operands whose product fits its integers
FormulaOut(reserveIn, reserveOut, fee, amountIn) ==
    IF amountIn = 0 \/ reserveIn = 0 \/ reserveOut = 0 THEN 0
    ELSE LET a == amountIn - ((amountIn * fee) \div 10000)
         IN  (a * reserveOut) \div (reserveIn + a)

\* the two quotes whose product does not fit, computed by hand
LargeQuotes ==
    {<<1000000, 500000, 30, 10000, 4935>>, <<500000, 1000000, 30, 10000, 19550>>}

QuoteIsFormula(reserveIn, reserveOut, fee, amountIn, out) ==
    IF amountIn <= 1000 \/ reserveOut <= 10000
    THEN out = FormulaOut(reserveIn, reserveOut, fee, amountIn)
    ELSE <<reserveIn, reserveOut, fee, amountIn, out>> \in LargeQuotes

C3_QuoteFormula ==
    [][(IsCall /\ CalledPool = DemoSwapAddr /\ CalledOp = "quote") =>
          /\ last'.res = "ok"
          /\ QuoteIsFormula(IF last'.args.aToB THEN demo.reserveA ELSE demo.reserveB,
                            IF last'.args.aToB THEN demo.reserveB ELSE demo.reserveA,
                            demo.feeNumerator, last'.args.a1, last'.out)]_vars

C3_Witness ==
    /\ last.pool = DemoSwapAddr /\ last.op = "quote" /\ last.args.aToB
    /\ last.args.a1 = 10000 /\ last.out = 4935
    /\ demo.reserveA = 1000000 /\ demo.reserveB = 500000 /\ demo.feeNumerator = 30

(***************************************************************************)
(* C4.  A DemoSwap.swap that returns, returns what quote gave for the same *)
(* direction and amountIn in the state before the swap; the output reserve *)
(* has decreased by exactly that amount, the caller holds that much more   *)
(* of the output token and amountIn less of the input token.               *)
(***************************************************************************)
C4_SwapMatchesQuote ==
    [][AtStep(DemoSwapAddr, "swap", "exit") =>
          LET f == Top
              d0 == f.snap.demo
              out == quote(d0, f.args.aToB, f.args.a1)
          IN  /\ last'.res = "ok" /\ last'.op = "swap" /\ last'.out = out
              /\ IF f.args.aToB
                 THEN /\ demo'.reserveB = d0.reserveB - out
                      /\ demo'.balB[f.caller] = d0.balB[f.caller] + out
                      /\ demo'.balA[f.caller] = d0.balA[f.caller] - f.args.a1
                 ELSE /\ demo'.reserveA = d0.reserveA - out
                      /\ demo'.balA[f.caller] = d0.balA[f.caller] + out
                      /\ demo'.balB[f.caller] = d0.balB[f.caller] - f.args.a1]_vars

C4_Witness ==
    /\ last.pool = DemoSwapAddr /\ last.op = "swap" /\ last.res = "ok"
    /\ ~last.args.aToB /\ last.out > 0 /\ last.args.a1 = 10000
    /\ stack = <<>>

(***************************************************************************)
(* C5.  A DemoSwap.swap that reaches the slippage check with a computed    *)
(* amountOut below minAmountOut fails with "Insufficient output amount",   *)
(* and the reserves, the balances and everything else are as before.       *)
(***************************************************************************)
C5_SlippageAborts ==
    [][(IsCall /\ CalledPool = DemoSwapAddr /\ CalledOp = "swap") =>
          LET a == CalledArgs
          IN  (/\ demo.status # ENTERED /\ ~demo.paused
               /\ a.a1 > 0 /\ demo.reserveA > 0 /\ demo.reserveB > 0
               /\ quote(demo, a.aToB, a.a1) < a.a2) =>
                  /\ last'.res = "Insufficient output amount"
                  /\ demo' = demo /\ priv' = priv /\ stack' = stack]_vars

C5_Witness ==
    /\ last.pool = DemoSwapAddr /\ last.op = "swap"
    /\ last.res = "Insufficient output amount"
    /\ last.args.aToB /\ last.args.a1 = 10000 /\ last.args.a2 = 5000
    /\ demo.reserveA = 1000000 /\ demo.reserveB = 500000

(***************************************************************************)
(* C6.  Once a DemoSwap.swap has updated the reserves, the product         *)
(* reserveA * reserveB is at least what it was when the swap was called.   *)
(***************************************************************************)
C6_ProductNotDecreasing ==
    \A i \in 1..Len(stack) :
       (DemoSwapFrame(stack[i]) /\ stack[i].pc \in {"push", "exit"}) =>
          ~WideLess(Wide(demo.reserveA, demo.reserveB),
                    Wide(stack[i].snap.demo.reserveA, stack[i].snap.demo.reserveB))

C6_Witness ==
    /\ AtStep(DemoSwapAddr, "swap", "exit")
    /\ Top.args.a1 = 10000 /\ demo.feeNumerator > 0
    /\ WideLess(Wide(Top.snap.demo.reserveA, Top.snap.demo.reserveB),
                Wide(demo.reserveA, demo.reserveB))

(***************************************************************************)
(* C7.  After a DemoSwap.swap that charged a fee (the fee rate is above 0  *)
(* and amountIn is large enough for floor(amountIn * fee / 10000) > 0) the *)
(* product reserveA * reserveB is strictly greater than before the swap.   *)
(***************************************************************************)
C7_ProductStrictlyIncreasing ==
    \A i \in 1..Len(stack) :
       (/\ DemoSwapFrame(stack[i]) /\ stack[i].pc = "exit"
        /\ stack[i].snap.demo.feeNumerator > 0 /\ stack[i].args.a1 > 0
        /\ (stack[i].args.a1 * stack[i].snap.demo.feeNumerator) \div FEE_DENOMINATOR > 0) =>
          WideLess(Wide(stack[i].snap.demo.reserveA, stack[i].snap.demo.reserveB),
                   Wide(demo.reserveA, demo.reserveB))

(***************************************************************************)
(* C8.  Once a PrivateSwap.swap on initialized reserves has updated them,  *)
(* the product of the plaintext reserves is at least what it was when the  *)
(* swap was called.                                                        *)
(***************************************************************************)
C8_PrivProductNotDecreasing ==
    \A i \in 1..Len(stack) :
       (PrivSwapFrame(stack[i]) /\ stack[i].pc \in {"push", "exit"}) =>
          priv.reserveA.val * priv.reserveB.val >=
             stack[i].snap.priv.reserveA.val * stack[i].snap.priv.reserveB.val

(***************************************************************************)
(* C9.  As claimed: an operation of DemoSwap called with both reserves     *)
(* above 0 ends with both reserves above 0.                                *)
(***************************************************************************)
BothPositive(d) == d.reserveA > 0 /\ d.reserveB > 0

C9_ReservesStayPositive ==
    \A i \in 1..Len(stack) :
       (/\ stack[i].pool = DemoSwapAddr /\ stack[i].pc = "exit"
        /\ BothPositive(stack[i].snap.demo)) => BothPositive(demo)

(***************************************************************************)
(* C9 as amended.  At every point of a DemoSwap operation called with both *)
(* reserves above 0, both reserves are above 0 unless the operation is a   *)
(* removeLiquidity whose amountA equals reserveA or whose amountB equals   *)
(* reserveB: swap and addLiquidity never take a reserve to zero, such a    *)
(* removeLiquidity does.                                                   *)
(***************************************************************************)
C9_OnlyRemoveDrains ==
    \A i \in 1..Len(stack) :
       (/\ stack[i].pool = DemoSwapAddr
        /\ BothPositive(stack[i].snap.demo) /\ ~BothPositive(demo)) =>
          /\ stack[i].op = "removeLiquidity"
          /\ \/ stack[i].args.a1 = stack[i].snap.demo.reserveA /\ demo.reserveA = 0
             \/ stack[i].args.a2 = stack[i].snap.demo.reserveB /\ demo.reserveB = 0

C9_Witness ==
    /\ AtStep(DemoSwapAddr, "removeLiquidity", "exit")
    /\ BothPositive(Top.snap.demo)
    /\ demo.reserveA = 0 /\ demo.reserveB > 0

(***************************************************************************)
(* C10.  On each pool at most one of swap, addLiquidity, removeLiquidity   *)
(* is in progress, and the pool's lock is held exactly then.  A mutating   *)
(* call on a pool that has one in progress fails and changes nothing; a    *)
(* call is refused as re-entrant only by the lock of its own pool.         *)
(***************************************************************************)
LockState(pool) == IF pool = DemoSwapAddr THEN demo.status ELSE priv.status

C10_OneAtATime ==
    \A pool \in {DemoSwapAddr, PrivateSwapAddr} :
       /\ Cardinality(Frames(pool)) <= 1
       /\ \A i \in Frames(pool) : stack[i].op \in MutatingOps
       /\ InFlight(pool) <=> LockState(pool) = ENTERED

C10_ReentryRefused ==
    (IsCall /\ CalledOp \in MutatingOps) =>
       /\ InFlight(CalledPool) =>
             /\ ~Pushed
             /\ last'.res # "ok"
             /\ demo' = demo /\ priv' = priv /\ stack' = stack
       /\ (~Pushed /\ last'.res = "ReentrancyGuardReentrantCall") => InFlight(CalledPool)

C10_MutualExclusion == []C10_OneAtATime /\ [][C10_ReentryRefused]_vars

C10_Witness ==
    /\ Len(stack) = 1
    /\ last.pool = Top.pool /\ last.op \in MutatingOps
    /\ last.res = "ReentrancyGuardReentrantCall"

\* a mutating call on the other pool is in progress inside a locked pool
C10_OtherPoolEntered ==
    /\ Len(stack) = 2
    /\ stack[1].pool # stack[2].pool

(***************************************************************************)
(* C11.  The lock of a pool is released on every exit path.  Whenever none *)
(* of swap, addLiquidity, removeLiquidity is in progress on a pool its     *)
(* lock is free; every step that ends such a call (a return, or a revert   *)
(* in the pull or the push) and every call refused by its entry checks     *)
(* (paused, invalid amount, insufficient liquidity, slippage) leaves the   *)
(* lock free; and a mutating call made while no other is in progress on    *)
(* the pool is never refused as re-entrant, whatever calls came before.    *)
(***************************************************************************)
LockAfter(pool) == IF pool = DemoSwapAddr THEN demo'.status ELSE priv'.status

C11_FreeAtRest ==
    \A pool \in {DemoSwapAddr, PrivateSwapAddr} :
       ~InFlight(pool) => LockState(pool) = NOT_ENTERED

C11_EndReleases ==
    /\ Len(stack') < Len(stack) => LockAfter(Top.pool) = NOT_ENTERED
    /\ (IsCall /\ ~Pushed /\ CalledPool \in {DemoSwapAddr, PrivateSwapAddr}
        /\ ~InFlight(CalledPool)) => LockAfter(CalledPool) = NOT_ENTERED

C11_NeverBlocked ==
    (IsCall /\ ~Pushed /\ CalledOp \in MutatingOps /\ ~InFlight(CalledPool)) =>
       last'.res # "ReentrancyGuardReentrantCall"

C11_LockReleased ==
    []C11_FreeAtRest /\ [][C11_EndReleases /\ C11_NeverBlocked]_vars

\* a swap has failed in its pull or its push and left the lock free, and
\* another transaction can be sent
C11_Witness ==
    /\ stack = <<>> /\ budget = 1
    /\ last.pool = DemoSwapAddr /\ last.op = "swap" /\ last.res = "transfer failed"
    /\ demo.status = NOT_ENTERED

(***************************************************************************)
(* C12.  A read never observes a torn reserve pair.  The pools read their  *)
(* reserves only in  quote / getQuote, which can run while a swap, an      *)
(* addLiquidity or a removeLiquidity waits in a pull or a push.  During    *)
(* each such operation the pair (reserveA, reserveB) changes at most once, *)
(* in one step and from the pair the operation was called with: so every   *)
(* pair visible while it runs is the pair before it or the pair after it.  *)
(***************************************************************************)
PairOf(pool, d, p) ==
    IF pool = DemoSwapAddr THEN <<d.reserveA, d.reserveB>>
    ELSE <<p.reserveA.val, p.reserveB.val>>

C12_OneUpdate ==
    \A i \in 1..Len(stack) :
       (i <= Len(stack')
        /\ PairOf(stack[i].pool, demo', priv') # PairOf(stack[i].pool, demo, priv)) =>
          /\ i = Len(stack)
          /\ PairOf(stack[i].pool, demo, priv) =
                PairOf(stack[i].pool, stack[i].snap.demo, stack[i].snap.priv)

\* a quote made while an operation is in progress returns the quote of the
\* pair before it or of the pair it has now written
C12_ReadsWhole ==
    (IsCall /\ CalledPool = DemoSwapAddr /\ CalledOp = "quote" /\ InFlight(DemoSwapAddr)) =>
       \E i \in Frames(DemoSwapAddr) :
          \/ last'.out = quote(stack[i].snap.demo, last'.args.aToB, last'.args.a1)
          \/ /\ stack[i].pc \in {"push", "pushA", "pushB"}
             /\ last'.out = quote(demo, last'.args.aToB, last'.args.a1)

C12_NoTornRead == [][C12_OneUpdate /\ C12_ReadsWhole]_vars

\* quote has run during the push of a swap and has seen the new pair
C12_Witness ==
    /\ Len(stack) = 1 /\ DemoSwapFrame(Top) /\ Top.pc = "push"
    /\ last.pool = DemoSwapAddr /\ last.op = "quote"
    /\ PairOf(DemoSwapAddr, demo, priv) # PairOf(DemoSwapAddr, Top.snap.demo, Top.snap.priv)
    /\ last.out = quote(demo, last.args.aToB, last.args.a1)
    /\ last.out # quote(Top.snap.demo, last.args.aToB, last.args.a1)

(***************************************************************************)
(* C13.  As claimed: in every state, the only principal holding a grant    *)
(* in force (persistent, or transient in the running transaction) on the   *)
(* handle stored as _reserveA or _reserveB is PrivateSwap itself.          *)
(***************************************************************************)
Grantees == Principals \cup {PrivateSwapAddr, "tokenA", "tokenB"}

C13_ReservesPrivate ==
    \A who \in Grantees \ {PrivateSwapAddr} :
       ~isAllowed(priv.reserveA, who) /\ ~isAllowed(priv.reserveB, who)

(***************************************************************************)
(* C14.  getQuote called by p stores a numerator and a denominator as p's  *)
(* ticket (_lastNumerator[p], _lastDenominator[p]) and changes nothing     *)
(* else: the reserves, the fee, the paused flag and the tickets of the     *)
(* other principals stay as they are.  In every state the grants in force  *)
(* on a stored ticket are exactly those of its principal and of the pool.  *)
(***************************************************************************)
TicketGrantees(e) == {who \in Grantees : isAllowed(e, who)}

C14_TicketsPrivate ==
    \A p \in Principals :
       /\ isInitialized(priv.lastNumerator[p]) =>
             TicketGrantees(priv.lastNumerator[p]) = {p, PrivateSwapAddr}
       /\ isInitialized(priv.lastDenominator[p]) =>
             TicketGrantees(priv.lastDenominator[p]) = {p, PrivateSwapAddr}

C14_QuoteStoresTicket ==
    (IsCall /\ CalledPool = PrivateSwapAddr /\ CalledOp = "getQuote"
     /\ last'.res = "ok") =>
       /\ isInitialized(priv'.lastNumerator[last'.caller])
       /\ isInitialized(priv'.lastDenominator[last'.caller])
       /\ \A q \in Principals \ {last'.caller} :
             /\ priv'.lastNumerator[q] = priv.lastNumerator[q]
             /\ priv'.lastDenominator[q] = priv.lastDenominator[q]
       /\ priv' = [priv EXCEPT !.lastNumerator = priv'.lastNumerator,
                               !.lastDenominator = priv'.lastDenominator]
       /\ demo' = demo /\ stack' = stack

C14_QuoteTicket == []C14_TicketsPrivate /\ [][C14_QuoteStoresTicket]_vars

\* alice holds a ticket and bob has then taken one of his own
C14_Witness ==
    /\ isInitialized(priv.lastNumerator["alice"])
    /\ isInitialized(priv.lastDenominator["alice"])
    /\ stack = <<>>
    /\ last.pool = PrivateSwapAddr /\ last.op = "getQuote" /\ last.res = "ok"
    /\ last.caller = "bob" /\ isInitialized(priv.lastNumerator["bob"])

(***************************************************************************)
(* C15.  PrivateSwap.removeLiquidity is refused only when the pool is      *)
(* paused, locked or uninitialized, never for its amounts.  When amountA   *)
(* exceeds reserveA or amountB exceeds reserveB it sends actualAmountA =   *)
(* actualAmountB = 0, and the reserves and all balances stay as they were  *)
(* up to its return.  Otherwise it sends amountA and amountB and, once it  *)
(* has updated the reserves, they are the old ones less exactly amountA    *)
(* and amountB.  In no case does a reserve wrap around below zero.         *)
(***************************************************************************)
PrivRemoveFrame(f) == f.pool = PrivateSwapAddr /\ f.op = "removeLiquidity"

C15_RemoveFrames ==
    \A i \in 1..Len(stack) :
       PrivRemoveFrame(stack[i]) =>
          LET f == stack[i]
              rA == f.snap.priv.reserveA.val
              rB == f.snap.priv.reserveB.val
          IN  /\ priv.reserveA.val <= rA /\ priv.reserveB.val <= rB
              /\ IF f.args.a1 > rA \/ f.args.a2 > rB
                 THEN /\ f.loc.x.val = 0 /\ f.loc.y.val = 0
                      /\ PrivUntouched(f)
                 ELSE /\ f.loc.x.val = f.args.a1 /\ f.loc.y.val = f.args.a2
                      /\ IF f.pc = "exit"
                         THEN /\ priv.reserveA.val = rA - f.args.a1
                              /\ priv.reserveB.val = rB - f.args.a2
                         ELSE /\ priv.reserveA.val = rA
                              /\ priv.reserveB.val = rB

C15_NeverRefusedForAmounts ==
    /\ (IsCall /\ CalledPool = PrivateSwapAddr /\ CalledOp = "removeLiquidity"
        /\ ~priv.paused /\ priv.status = NOT_ENTERED
        /\ isInitialized(priv.reserveA) /\ isInitialized(priv.reserveB)) => Pushed
    /\ AtStep(PrivateSwapAddr, "removeLiquidity", "exit") =>
          /\ last'.res = "ok"
          /\ last'.event = [name |-> "LiquidityRemoved", args |-> <<Top.caller>>]

C15_RemoveObliviousFail ==
    []C15_RemoveFrames /\ [][C15_NeverRefusedForAmounts]_vars

\* a removeLiquidity of more than reserveA has returned
C15_Witness ==
    /\ stack = <<>>
    /\ last.pool = PrivateSwapAddr /\ last.op = "removeLiquidity" /\ last.res = "ok"
    /\ last.args.a1 > priv.reserveA.val /\ last.args.a2 <= priv.reserveB.val
    /\ last.args.a2 > 0

(***************************************************************************)
(* C16.  As claimed: when getQuote succeeds and none of its products or    *)
(* sums leaves the range of the encrypted type, floor(numerator /          *)
(* denominator) of the stored pair equals the amountOut of the formula of  *)
(* DemoSwap for the same reserveIn, reserveOut, amountIn and fee.          *)
(***************************************************************************)
C16_InRange(reserveIn, reserveOut, fee, amountIn) ==
    /\ reserveIn <= 6 /\ reserveOut <= 6 /\ amountIn <= 6
    /\ amountIn * (FEE_DENOMINATOR - fee) * reserveOut < EuintMod
    /\ reserveIn * FEE_DENOMINATOR + amountIn * (FEE_DENOMINATOR - fee) < EuintMod

C16_SameFormula ==
    [][(IsCall /\ CalledPool = PrivateSwapAddr /\ CalledOp = "getQuote"
        /\ last'.res = "ok") =>
          LET c == last'.caller
              isAtoB == last'.args.aToB
              reserveIn == IF isAtoB THEN priv.reserveA.val ELSE priv.reserveB.val
              reserveOut == IF isAtoB THEN priv.reserveB.val ELSE priv.reserveA.val
              numerator == priv'.lastNumerator[c].val
              denominator == priv'.lastDenominator[c].val
          IN  (C16_InRange(reserveIn, reserveOut, priv.swapFee, last'.args.a1)
               /\ denominator > 0) =>
                 numerator \div denominator =
                    FormulaOut(reserveIn, reserveOut, priv.swapFee, last'.args.a1)]_vars

(***************************************************************************)
(* C17.  As claimed: a PrivateSwap.swap with amountIn = 0, and a           *)
(* PrivateSwap.addLiquidity with amountA = 0 or amountB = 0, made on a     *)
(* pool that is not paused, not locked and (for swap) initialized, is      *)
(* refused with an error and changes no state.                             *)
(***************************************************************************)
C17_ZeroAmountRefused ==
    [][(IsCall /\ CalledPool = PrivateSwapAddr
        /\ ~priv.paused /\ priv.status = NOT_ENTERED
        /\ \/ /\ CalledOp = "swap" /\ CalledArgs.a1 = 0
              /\ isInitialized(priv.reserveA) /\ isInitialized(priv.reserveB)
           \/ /\ CalledOp = "addLiquidity"
              /\ (CalledArgs.a1 = 0 \/ CalledArgs.a2 = 0)) =>
          /\ ~Pushed
          /\ last'.res # "ok"
          /\ demo' = demo /\ priv' = priv /\ stack' = stack]_vars

(***************************************************************************)
(* C18.  While a pool is paused every swap, addLiquidity and               *)
(* removeLiquidity on it fails with EnforcedPause and changes nothing,     *)
(* while DemoSwap.quote still returns the quote and PrivateSwap.getQuote   *)
(* still succeeds on initialized reserves.  unpause by the owner clears    *)
(* the flag, and on a pool that is not paused no mutating call fails with  *)
(* EnforcedPause: one that passes the other checks is carried out.         *)
(***************************************************************************)
Paused(pool) == IF pool = DemoSwapAddr THEN demo.paused ELSE priv.paused
PausedAfter(pool) == IF pool = DemoSwapAddr THEN demo'.paused ELSE priv'.paused
Pools == {DemoSwapAddr, PrivateSwapAddr}

C18_PausedRefuses ==
    (IsCall /\ CalledPool \in Pools /\ CalledOp \in MutatingOps /\ Paused(CalledPool)) =>
       /\ ~Pushed
       /\ last'.res = "EnforcedPause"
       /\ demo' = demo /\ priv' = priv /\ stack' = stack

C18_QuotesStillWork ==
    /\ (IsCall /\ CalledPool = DemoSwapAddr /\ CalledOp = "quote" /\ demo.paused) =>
          /\ last'.res = "ok"
          /\ last'.out = quote(demo, last'.args.aToB, last'.args.a1)
    /\ (IsCall /\ CalledPool = PrivateSwapAddr /\ CalledOp = "getQuote" /\ priv.paused
        /\ isInitialized(priv.reserveA) /\ isInitialized(priv.reserveB)) =>
          /\ last'.res = "ok"
          /\ isInitialized(priv'.lastNumerator[last'.caller])

C18_UnpauseRestores ==
    /\ (IsCall /\ CalledPool \in Pools /\ CalledOp = "unpause" /\ last'.res = "ok") =>
          Paused(CalledPool) /\ ~PausedAfter(CalledPool)
    /\ (IsCall /\ CalledPool \in Pools /\ CalledOp = "pause" /\ last'.res = "ok") =>
          ~Paused(CalledPool) /\ PausedAfter(CalledPool)
    /\ (IsCall /\ CalledPool \in Pools /\ CalledOp \in MutatingOps
        /\ ~Paused(CalledPool)) =>
          /\ ~Pushed => last'.res # "EnforcedPause"
          /\ (/\ CalledPool = DemoSwapAddr /\ CalledOp = "swap"
              /\ demo.status = NOT_ENTERED
              /\ CalledArgs.a1 > 0 /\ demo.reserveA > 0 /\ demo.reserveB > 0
              /\ quote(demo, CalledArgs.aToB, CalledArgs.a1) >= CalledArgs.a2) => Pushed
          /\ (/\ CalledPool = PrivateSwapAddr /\ CalledOp = "swap"
              /\ priv.status = NOT_ENTERED
              /\ isInitialized(priv.reserveA) /\ isInitialized(priv.reserveB)) => Pushed

C18_Pause ==
    [][C18_PausedRefuses /\ C18_QuotesStillWork /\ C18_UnpauseRestores]_vars

\* the DemoSwap pool that started paused with reserves (3, 3) has been
\* unpaused and has then carried out a swap, while PrivateSwap is still paused
C18_Witness ==
    /\ stack = <<>>
    /\ demo.balA["alice"] + demo.balA["bob"] + demo.balA[DemoSwapAddr] = 20004
    /\ ~demo.paused /\ priv.paused
    /\ last.pool = DemoSwapAddr /\ last.op = "swap" /\ last.res = "ok"

(***************************************************************************)
(* C19.  Governance is owner-only.  updateFee / setSwapFee, pause, unpause *)
(* and transferOwnership of DemoSwap and PrivateSwap, and                  *)
(* transferOwnership of EncryptedPUSD, called by anyone but the current    *)
(* owner of the contract, fail with its unauthorized error and change      *)
(* nothing; transferOwnership to address(0) fails and changes nothing even *)
(* when the owner calls it; transferOwnership by the owner to another      *)
(* address makes that address the owner.                                   *)
(***************************************************************************)
GovernanceOps == {"updateFee", "setSwapFee", "pause", "unpause", "transferOwnership"}
Contracts == {DemoSwapAddr, PrivateSwapAddr, EncryptedPUSDAddr}

OwnerOf(contract) ==
    IF contract = DemoSwapAddr THEN demo.owner
    ELSE IF contract = PrivateSwapAddr THEN priv.owner
    ELSE pusd.owner

OwnerAfter(contract) ==
    IF contract = DemoSwapAddr THEN demo'.owner
    ELSE IF contract = PrivateSwapAddr THEN priv'.owner
    ELSE pusd'.owner

C19_OwnerOnly ==
    (IsCall /\ CalledPool \in Contracts /\ CalledOp \in GovernanceOps) =>
       /\ last'.caller # OwnerOf(CalledPool) =>
             /\ last'.res \in {"OwnableUnauthorizedAccount", "Only owner can call this"}
             /\ demo' = demo /\ priv' = priv /\ pusd' = pusd
       /\ (CalledOp = "transferOwnership" /\ last'.args.to = ZeroAddr) =>
             /\ last'.res \in {"OwnableUnauthorizedAccount", "Only owner can call this",
                               "OwnableInvalidOwner", "New owner cannot be zero address"}
             /\ demo' = demo /\ priv' = priv /\ pusd' = pusd
       /\ (CalledOp = "transferOwnership" /\ last'.caller = OwnerOf(CalledPool)
           /\ last'.args.to # ZeroAddr) =>
             /\ last'.res = "ok"
             /\ OwnerAfter(CalledPool) = last'.args.to
       /\ last'.res # "ok" => demo' = demo /\ priv' = priv /\ pusd' = pusd

C19_Governance == [][C19_OwnerOnly]_vars

\* alice has handed DemoSwap to bob and is then refused as its former owner,
\* while she still owns the token
C19_Witness ==
    /\ demo.owner = "bob" /\ pusd.owner = "alice"
    /\ last.pool = DemoSwapAddr /\ last.op = "updateFee" /\ last.caller = "alice"
    /\ last.res = "OwnableUnauthorizedAccount"

(***************************************************************************)
(* C20.  As claimed: in both pools a fee change by the owner to any n      *)
(* with 0 <= n <= MAX_FEE = 1000 succeeds and sets the fee to n.           *)
(***************************************************************************)
IsFeeCall ==
    /\ IsCall
    /\ \/ CalledPool = DemoSwapAddr /\ CalledOp = "updateFee"
       \/ CalledPool = PrivateSwapAddr /\ CalledOp = "setSwapFee"
    /\ last'.caller = OwnerOf(CalledPool)

FeeAfter(pool) == IF pool = DemoSwapAddr THEN demo'.feeNumerator ELSE priv'.swapFee

C20_SetFeeUpToMaxFee ==
    [][(IsFeeCall /\ last'.args.a1 <= MAX_FEE) =>
          last'.res = "ok" /\ FeeAfter(CalledPool) = last'.args.a1]_vars

(***************************************************************************)
(* C20 as amended.  The fee limit differs between the pools.  By the       *)
(* owner, DemoSwap.updateFee(n) succeeds and sets feeNumerator = n for     *)
(* n <= 100 and fails with "Fee too high" for n > 100;                     *)
(* PrivateSwap.setSwapFee(n) succeeds and sets swapFee = n for             *)
(* n <= MAX_FEE = 1000 and fails with "Fee exceeds maximum" for n > 1000;  *)
(* a failed call leaves the fee as it was.  So feeNumerator is within      *)
(* [0, 100] and swapFee within [0, 1000] in every state.  The next quote   *)
(* and the next getQuote are computed with the fee then stored.            *)
(***************************************************************************)
FeeLimit(pool) == IF pool = DemoSwapAddr THEN DemoMaxFee ELSE MAX_FEE

C20_FeeWithinLimit ==
    /\ demo.feeNumerator \in 0..DemoMaxFee
    /\ priv.swapFee \in 0..MAX_FEE

C20_SetFee ==
    IsFeeCall =>
       IF last'.args.a1 <= FeeLimit(CalledPool)
       THEN last'.res = "ok" /\ FeeAfter(CalledPool) = last'.args.a1
       ELSE /\ last'.res = (IF CalledPool = DemoSwapAddr THEN "Fee too high"
                                                        ELSE "Fee exceeds maximum")
            /\ demo' = demo /\ priv' = priv

\* out is floor(a * reserveOut / (reserveIn + a)) for a = amountIn less the
\* fee at the rate given, checked by the two products that bracket it
IsQuoteAtFee(reserveIn, reserveOut, fee, amountIn, out) ==
    LET a == amountIn - ((amountIn * fee) \div FEE_DENOMINATOR)
    IN  /\ ~WideLess(Wide(a, reserveOut), Wide(out, reserveIn + a))
        /\ WideLess(Wide(a, reserveOut), Wide(out + 1, reserveIn + a))

C20_FeeUsed ==
    /\ (IsCall /\ CalledPool = DemoSwapAddr /\ CalledOp = "quote"
        /\ last'.args.a1 > 0 /\ demo.reserveA > 0 /\ demo.reserveB > 0) =>
          IsQuoteAtFee(IF last'.args.aToB THEN demo.reserveA ELSE demo.reserveB,
                       IF last'.args.aToB THEN demo.reserveB ELSE demo.reserveA,
                       demo.feeNumerator, last'.args.a1, last'.out)
    /\ (IsCall /\ CalledPool = PrivateSwapAddr /\ CalledOp = "getQuote"
        /\ last'.res = "ok") =>
          LET reserveOut == IF last'.args.aToB THEN priv.reserveB.val
                                               ELSE priv.reserveA.val
              scaled == MulDivMod(last'.args.a1, FEE_DENOMINATOR - priv.swapFee,
                                  EuintMod)[2]
          IN  priv'.lastNumerator[last'.caller].val =
                 MulDivMod(scaled, reserveOut, EuintMod)[2]

C20_FeeLimits == []C20_FeeWithinLimit /\ [][C20_SetFee /\ C20_FeeUsed]_vars

\* the owner has raised the fee of DemoSwap from 30 to 100 and the quote
\* of 10,000 on reserves 1,000,000 / 500,000 is now 4,901 instead of 4,935
C20_Witness ==
    /\ demo.feeNumerator = 100
    /\ demo.reserveA = 1000000 /\ demo.reserveB = 500000
    /\ last.pool = DemoSwapAddr /\ last.op = "quote" /\ last.args.a1 = 10000
    /\ last.out = 4901

(***************************************************************************)
(* C21.  Round trip, in both pools: when addLiquidity(a, b) has succeeded  *)
(* and the next call, removeLiquidity(a, b) on the same pool, has made its *)
(* pushes and updated the reserves, reserveA and reserveB equal their      *)
(* values before the addLiquidity.                                         *)
(***************************************************************************)
RoundTripFrame(f) ==
    /\ f.op = "removeLiquidity" /\ f.pc = "exit"
    /\ f.prev.pool = f.pool /\ f.prev.op = "addLiquidity" /\ f.prev.res = "ok"
    /\ f.prev.caller = f.caller
    /\ f.prev.args.a1 = f.args.a1 /\ f.prev.args.a2 = f.args.a2

C21_RoundTrip ==
    \A i \in 1..Len(stack) :
       RoundTripFrame(stack[i]) => ReservesOf(stack[i].pool, Snapshot) = stack[i].prev.pre

\* the round trip of DemoSwap alone
C21_DemoRoundTrip ==
    \A i \in 1..Len(stack) :
       (RoundTripFrame(stack[i]) /\ stack[i].pool = DemoSwapAddr) =>
          ReservesOf(DemoSwapAddr, Snapshot) = stack[i].prev.pre

\* a round trip on PrivateSwap whose addLiquidity did not wrap a reserve
C21_PrivRoundTripInRange ==
    \A i \in 1..Len(stack) :
       (/\ RoundTripFrame(stack[i]) /\ stack[i].pool = PrivateSwapAddr
        /\ stack[i].prev.pre[1] + stack[i].args.a1 < EuintMod
        /\ stack[i].prev.pre[2] + stack[i].args.a2 < EuintMod) =>
          ReservesOf(PrivateSwapAddr, Snapshot) = stack[i].prev.pre

C21_DemoWitness ==
    /\ AtStep(DemoSwapAddr, "removeLiquidity", "exit")
    /\ RoundTripFrame(Top) /\ Top.args.a1 = 3 /\ Top.args.a2 = 1

(***************************************************************************)
(* C22.  The output of the DemoSwap formula does not decrease when amountIn*)
(* grows.  When two quotes are taken one after the other in the same       *)
(* direction on the same reserves, the second with an amountIn at least    *)
(* that of the first, the second amountOut is at least the first; the same *)
(* holds of _calculateSwap on these reserves and amounts with the fee at   *)
(* MAX_FEE.  The amounts include those at which floor(amountIn * fee /     *)
(* 10000) steps up.                                                        *)
(***************************************************************************)
IsQuotePair ==
    /\ IsCall
    /\ last.pool = DemoSwapAddr /\ last.op = "quote"
    /\ last'.pool = DemoSwapAddr /\ last'.op = "quote"
    /\ last'.args.aToB = last.args.aToB
    /\ last.args.a1 <= last'.args.a1

FormulaAt(d, aToB, feeNum, amountIn) ==
    CalcSwap(IF aToB THEN d.reserveA ELSE d.reserveB,
             IF aToB THEN d.reserveB ELSE d.reserveA, feeNum, amountIn)[1]

C22_QuotesMonotonic ==
    IsQuotePair =>
       /\ last.out <= last'.out
       /\ FormulaAt(demo, last.args.aToB, MAX_FEE, last.args.a1)
             <= FormulaAt(demo, last.args.aToB, MAX_FEE, last'.args.a1)

C22_Monotonic == [][C22_QuotesMonotonic]_vars

\* quotes for 99 and then for 100 at fee 100: the fee steps from 0 to 1 and
\* the amount after the fee stays 99
C22_Witness ==
    /\ last.pool = DemoSwapAddr /\ last.op = "quote" /\ budget = 0
    /\ demo.feeNumerator = 100 /\ demo.reserveA = 1000000
    /\ last.args.aToB /\ last.args.a1 = 100
    /\ last.out = FormulaAt(demo, TRUE, 100, 99)
    /\ last.out > 0

(***************************************************************************)
(* C23.  DemoSwap.removeLiquidity(amountA, amountB) passes its checks      *)
(* exactly when no mutating call is in progress on the pool, the pool is   *)
(* not paused, amountA <= reserveA and amountB <= reserveB; a refused call *)
(* changes nothing.  An accepted call finds in the pool the tokens it has  *)
(* to push, so it fails only if the ledger fails a push, and then the      *)
(* reserves and balances are those from before the call.  When it returns, *)
(* reserveA and reserveB are lower by exactly amountA and amountB and the  *)
(* caller has received those amounts from the pool.                        *)
(***************************************************************************)
DemoRemoveFrame(f) == f.pool = DemoSwapAddr /\ f.op = "removeLiquidity"

C23_AcceptedExactlyWhen ==
    (IsCall /\ CalledPool = DemoSwapAddr /\ CalledOp = "removeLiquidity") =>
       /\ Pushed <=> /\ demo.status = NOT_ENTERED
                     /\ ~demo.paused
                     /\ CalledArgs.a1 <= demo.reserveA
                     /\ CalledArgs.a2 <= demo.reserveB
       /\ ~Pushed => /\ last'.res \in {"ReentrancyGuardReentrantCall", "EnforcedPause",
                                       "Insufficient liquidity"}
                     /\ demo' = demo

C23_Effects ==
    \A i \in 1..Len(stack) :
       DemoRemoveFrame(stack[i]) =>
          LET f == stack[i]
              was == f.snap.demo
          IN  /\ demo.reserveA = was.reserveA - f.args.a1
              /\ demo.reserveB = was.reserveB - f.args.a2
              /\ f.pc = "pushA" => demo.balA[DemoSwapAddr] >= f.args.a1
              /\ f.pc \in {"pushA", "pushB"} => demo.balB[DemoSwapAddr] >= f.args.a2
              /\ f.pc = "exit" =>
                    /\ demo.balA = Transfer(was.balA, DemoSwapAddr, f.caller, f.args.a1)
                    /\ demo.balB = Transfer(was.balB, DemoSwapAddr, f.caller, f.args.a2)

C23_FailureUndoes ==
    (stack # <<>> /\ DemoRemoveFrame(Top) /\ Len(stack') < Len(stack)) =>
       \/ /\ last'.res = "ok"
          /\ Top.pc = "exit"
          /\ demo'.reserveA = demo.reserveA /\ demo'.reserveB = demo.reserveB
          /\ demo'.balA = demo.balA /\ demo'.balB = demo.balB
       \/ /\ last'.res = "transfer failed"
          /\ demo' = Top.snap.demo

C23_RemoveLiquidity ==
    /\ [][C23_AcceptedExactlyWhen]_vars
    /\ []C23_Effects
    /\ [][C23_FailureUndoes]_vars

\* removeLiquidity(1, 2) has emptied the reserves (1, 2)
C23_Witness ==
    /\ stack = <<>>
    /\ last.pool = DemoSwapAddr /\ last.op = "removeLiquidity" /\ last.res = "ok"
    /\ last.pre = <<1, 2>> /\ last.args.a1 = 1 /\ last.args.a2 = 2
    /\ demo.reserveA = 0 /\ demo.reserveB = 0
    /\ demo.balA[DemoSwapAddr] = 0

(***************************************************************************)
(* C24.  A DemoSwap.swap is atomic.  While it waits for the pull nothing   *)
(* has changed; the pull and the reserve update take effect together; the  *)
(* swap returns only after the pull, the reserve update and the push.  If  *)
(* the pull or the push fails the swap fails, and the reserves and every   *)
(* token balance are those from before the call: a swap never ends with    *)
(* the pull made and the reserve update or the push missing.               *)
(***************************************************************************)
SwapPulled(f, d) ==
    LET was == f.snap.demo
        fee == (f.args.a1 * was.feeNumerator) \div FEE_DENOMINATOR
    IN  IF f.args.aToB
        THEN /\ d.balA = Transfer(was.balA, f.caller, DemoSwapAddr, f.args.a1)
             /\ d.reserveA = was.reserveA + f.args.a1 - fee
             /\ d.reserveB = was.reserveB - f.loc.x
        ELSE /\ d.balB = Transfer(was.balB, f.caller, DemoSwapAddr, f.args.a1)
             /\ d.reserveB = was.reserveB + f.args.a1 - fee
             /\ d.reserveA = was.reserveA - f.loc.x

SwapPushed(f, d) ==
    LET was == f.snap.demo
    IN  IF f.args.aToB
        THEN d.balB = Transfer(was.balB, DemoSwapAddr, f.caller, f.loc.x)
        ELSE d.balA = Transfer(was.balA, DemoSwapAddr, f.caller, f.loc.x)

SameFunds(d, e) ==
    /\ d.reserveA = e.reserveA /\ d.reserveB = e.reserveB
    /\ d.balA = e.balA /\ d.balB = e.balB

C24_Stages ==
    \A i \in 1..Len(stack) :
       DemoSwapFrame(stack[i]) =>
          LET f == stack[i]
          IN  /\ f.pc = "pull" => SameFunds(demo, f.snap.demo)
              /\ f.pc = "push" =>
                    /\ SwapPulled(f, demo)
                    /\ IF f.args.aToB THEN demo.balB = f.snap.demo.balB
                                      ELSE demo.balA = f.snap.demo.balA
              /\ f.pc = "exit" => SwapPulled(f, demo) /\ SwapPushed(f, demo)

C24_AllOrNothing ==
    (stack # <<>> /\ DemoSwapFrame(Top) /\ Len(stack') < Len(stack)) =>
       \/ /\ last'.res = "ok"
          /\ Top.pc = "exit"
          /\ SwapPulled(Top, demo') /\ SwapPushed(Top, demo')
       \/ /\ last'.res = "transfer failed"
          /\ Top.pc \in {"pull", "push"}
          /\ demo' = Top.snap.demo

C24_SwapAtomic == []C24_Stages /\ [][C24_AllOrNothing]_vars

\* a swap of alice's that had its funds has failed and left the pool as it was
C24_Witness ==
    /\ stack = <<>>
    /\ last.pool = DemoSwapAddr /\ last.op = "swap" /\ last.res = "transfer failed"
    /\ last.caller = "alice" /\ last.args.a1 = 100
    /\ ReservesOf(DemoSwapAddr, Snapshot) = last.pre
    /\ demo.balA["alice"] = 20000 /\ demo.balB["alice"] = 20000

(***************************************************************************)
(* C25.  The quote ticket of a principal (the stored numerator and         *)
(* denominator) changes only in a step that is an accepted getQuote call   *)
(* of that principal, and such a call stores the quote computed from the   *)
(* reserves and the fee of that moment, replacing the ticket stored        *)
(* before.  swap, addLiquidity, removeLiquidity, setSwapFee, pause,        *)
(* unpause, transferOwnership and the getQuote calls of other principals   *)
(* leave it as it is; a ticket taken before a fee change keeps the old fee.*)
(***************************************************************************)
Ticket(p, who) == <<p.lastNumerator[who], p.lastDenominator[who]>>

IsQuoteBy(who) ==
    /\ IsCall /\ ~Pushed
    /\ last'.pool = PrivateSwapAddr /\ last'.op = "getQuote"
    /\ last'.caller = who /\ last'.res = "ok"

C25_OnlyOwnQuote ==
    \A who \in Principals :
       Ticket(priv', who) # Ticket(priv, who) => IsQuoteBy(who)

C25_LatestWins ==
    \A who \in Principals :
       IsQuoteBy(who) =>
          LET reserveIn == IF last'.args.aToB THEN priv.reserveA.val ELSE priv.reserveB.val
              reserveOut == IF last'.args.aToB THEN priv.reserveB.val ELSE priv.reserveA.val
              withFee == (last'.args.a1 * (FEE_DENOMINATOR - priv.swapFee)) % EuintMod
          IN  /\ priv'.lastNumerator[who].val = MulDivMod(withFee, reserveOut, EuintMod)[2]
              /\ priv'.lastDenominator[who].val =
                    (MulDivMod(reserveIn, FEE_DENOMINATOR, EuintMod)[2] + withFee) % EuintMod

C25_TicketFrame == [][C25_OnlyOwnQuote /\ C25_LatestWins]_vars

\* alice took a ticket at fee 30 on reserves (1, 2); the owner has then set
\* the fee to 1000 and the ticket is the one taken at fee 30
C25_Witness ==
    /\ stack = <<>>
    /\ last.pool = PrivateSwapAddr /\ last.op = "setSwapFee" /\ last.res = "ok"
    /\ priv.swapFee = 1000
    /\ isInitialized(priv.lastNumerator["alice"])
    /\ priv.lastNumerator["alice"].val = 19940
    /\ priv.lastDenominator["alice"].val = 19970

(***************************************************************************)
(* C26.  The stored faucet settings change, and a settings update is       *)
(* accepted, only for a request that carries a signature made by           *)
(* ADMIN_ADDRESS over a message whose timestamp is within 5 minutes of the *)
(* time of the request, at every endpoint that updates the settings; any   *)
(* other request leaves the settings as they are.                          *)
(***************************************************************************)
SignedByAdmin(p) ==
    /\ p.req.signer = ADMIN_ADDRESS
    /\ p.req.hasTimestamp
    /\ Abs(p.at - p.req.timestamp) <= FIVE_MINUTES_MS

IsPut == faucet'.lastPut # faucet.lastPut \/ faucet'.settings # faucet.settings

C26_PutNeedsSignature ==
    IsPut =>
       IF SignedByAdmin(faucet'.lastPut)
       THEN faucet'.lastPut.status = 200 =>
               faucet'.settings = ApplyUpdates(faucet.settings, faucet'.lastPut.req.body)
       ELSE faucet'.lastPut.status # 200 /\ faucet'.settings = faucet.settings

C26_SettingsNeedSignature == [][C26_PutNeedsSignature]_vars

\* the same of the endpoint of src/server/routes.ts alone
C26_ServerNeedsSignature ==
    [][(IsPut /\ faucet'.lastPut.endpoint = "server") => C26_PutNeedsSignature]_vars

\* the serverless endpoint has stored settings sent without a signature
C26_UnsignedStored ==
    /\ faucet.lastPut.endpoint = "api" /\ faucet.lastPut.status = 200
    /\ faucet.lastPut.req.signer = ""
    /\ ~faucet.settings.enabled

(***************************************************************************)
(* C27.  The faucet enforces its cooldown per wallet: two mints to the     *)
(* same wallet, for whatever tokens, are at least the cooldown apart       *)
(* (cooldownHours as read by the later request), however the requests      *)
(* interleave; a request refused for the cooldown (429) has neither minted *)
(* nor recorded a claim.                                                   *)
(***************************************************************************)
Wallet(address) == ToLower(address)

C27_MintsApart ==
    \A m1 \in faucet.mints, m2 \in faucet.mints :
       (m1 # m2 /\ Wallet(m1.address) = Wallet(m2.address) /\ m1.at <= m2.at) =>
          m2.at - m1.at >= m2.cooldownHours * 60 * 60 * 1000

C27_RefusedMintsNothing ==
    \A r \in Requests :
       faucet.reqs[r].status = 429 =>
          \A m \in faucet.mints : m.req # r

C27_CooldownEnforced == C27_MintsApart /\ C27_RefusedMintsNothing

\* two requests for one wallet have both minted at the same time
C27_DoubleMint ==
    /\ \E m1 \in faucet.mints, m2 \in faucet.mints :
          /\ m1.req # m2.req /\ m1.address = m2.address /\ m1.at = m2.at
    /\ ~faucet.database

(***************************************************************************)
(* C28.  DemoSwap is solvent: in every state, also in the middle of a      *)
(* swap, an addLiquidity or a removeLiquidity, the pool's balance of each  *)
(* token is at least the reserve of that token; and a swap or a            *)
(* removeLiquidity that has passed its checks finds in the pool the amount *)
(* it has to push.                                                         *)
(***************************************************************************)
C28_BalanceCoversReserve ==
    /\ demo.balA[DemoSwapAddr] >= demo.reserveA
    /\ demo.balB[DemoSwapAddr] >= demo.reserveB

C28_PushCovered ==
    \A i \in 1..Len(stack) :
       LET f == stack[i]
       IN  /\ (DemoSwapFrame(f) /\ f.pc = "push") =>
                 (IF f.args.aToB THEN demo.balB[DemoSwapAddr] ELSE demo.balA[DemoSwapAddr])
                    >= f.loc.x
           /\ (DemoRemoveFrame(f) /\ f.pc = "pushA") =>
                 demo.balA[DemoSwapAddr] >= f.args.a1
           /\ (DemoRemoveFrame(f) /\ f.pc \in {"pushA", "pushB"}) =>
                 demo.balB[DemoSwapAddr] >= f.args.a2

C28_Solvent == C28_BalanceCoversReserve /\ C28_PushCovered

\* after a swap that kept a fee, a removeLiquidity has been paid out and the
\* pool holds more of token A than its reserve
C28_Witness ==
    /\ stack = <<>>
    /\ last.pool = DemoSwapAddr /\ last.op = "removeLiquidity" /\ last.res = "ok"
    /\ last.args.a1 = 3
    /\ demo.reserveA = 1000000 + 9970 - 3
    /\ demo.balA[DemoSwapAddr] = demo.reserveA + 30

(***************************************************************************)
(* C29.  PrivateSwap is solvent: whenever no call is in progress, each     *)
(* plaintext reserve is at most the amount of that token the ledger holds  *)
(* for the pool, the ledger moving nothing (and saying so in its return    *)
(* value) when the sender's balance does not cover a transfer.             *)
(***************************************************************************)
C29_ReservesCovered ==
    stack = <<>> =>
       /\ priv.reserveA.val <= priv.balA[PrivateSwapAddr]
       /\ priv.reserveB.val <= priv.balB[PrivateSwapAddr]

\* an addLiquidity whose pulls moved nothing has increased both reserves
C29_Unbacked ==
    /\ stack = <<>>
    /\ last.pool = PrivateSwapAddr /\ last.op = "addLiquidity" /\ last.res = "ok"
    /\ priv.balA[last.caller] < last.args.a1
    /\ priv.reserveA.val = last.pre[1] + last.args.a1
    /\ priv.reserveA.val > priv.balA[PrivateSwapAddr]

(***************************************************************************)
(* C30.  A DemoSwap.swap never empties a reserve: a swap accepted on       *)
(* reserves that are both above 0 has computed an amountOut strictly below *)
(* the output reserve, and both reserves are above 0 at every point of the *)
(* swap after the reserve update and when it returns.                      *)
(***************************************************************************)
C30_OutBelowReserve ==
    \A i \in 1..Len(stack) :
       DemoSwapFrame(stack[i]) =>
          LET f == stack[i]
              was == f.snap.demo
          IN  /\ BothPositive(was)
              /\ f.args.a1 > 0
              /\ f.loc.x < (IF f.args.aToB THEN was.reserveB ELSE was.reserveA)
              /\ BothPositive(demo)

C30_SwapKeepsReserves ==
    (last.pool = DemoSwapAddr /\ last.op = "swap" /\ last.res = "ok" /\ stack = <<>>) =>
       BothPositive(demo)

C30_NeverEmpties == C30_OutBelowReserve /\ C30_SwapKeepsReserves

\* a swap of 10000 into reserves (1, 2) has taken 1 of the 2 and left 1
C30_Witness ==
    /\ stack = <<>>
    /\ last.pool = DemoSwapAddr /\ last.op = "swap" /\ last.res = "ok"
    /\ last.args.aToB /\ last.args.a1 = 10000 /\ last.pre = <<1, 2>>
    /\ last.out = 1 /\ demo.reserveB = 1
====
